---- MODULE Spec2Model ----
(***************************************************************************)
(* Model of the incremental update engine of vue-use-monaco: the frame     *)
(* scheduler (utils/raf.ts), the single-buffer manager                     *)
(* (core/EditorManager.ts) and the dual-buffer manager                     *)
(* (core/DiffEditorManager.ts), together with the browser's animation      *)
(* frame queue and timer set they run on.                                  *)
(*                                                                         *)
(* Handlers are written as operators from a world record to a world        *)
(* record, so that a handler that calls other handlers (a flush that       *)
(* appends, an append that schedules) is one atomic step, as it is in the  *)
(* single-threaded event loop.                                             *)
(***************************************************************************)
EXTENDS Integers, Sequences, FiniteSets, TLC

VARIABLES
  ids,          \* raf.ts: module-level map kind -> pending frame handle (0 = null)
  rafQueue,     \* browser: animation frame callbacks not yet run, in request order
  nextId,       \* browser: next requestAnimationFrame handle
  frame,        \* browser: handles still to run in the frame being processed
  timers,       \* browser: armed setTimeout callbacks
  nextTimerId,  \* browser: next setTimeout handle
  ed,           \* EditorManager instances: manager -> fields
  diff,         \* the DiffEditorManager instance: fields
  cfg,          \* constructor options shared by the managers
  use,          \* a useMonaco instance: its managers and its suspended creation
  hl,           \* registerMonacoThemes.ts: the highlighter cache and its promises
  edit,         \* an evaluation of computeMinimalEdit and the buffer it is applied to
  ops,          \* number of API calls made so far (bounds the exploration)
  hist          \* history of the run, read only by the properties

vars == <<ids, rafQueue, nextId, frame, timers, nextTimerId, ed, diff, cfg, use, hl,
          edit, ops, hist>>

(***************************************************************************)
(* Bounds                                                                  *)
(***************************************************************************)
MaxOps == 3        \* API calls per run of the manager specifications
MaxCb == 4         \* callbacks handed to the bare scheduler
MaxLen == 3        \* length of the texts computeMinimalEdit is evaluated on

Mgrs == {1, 2}     \* EditorManager instances that may coexist on a page

\* the view's scroll geometry, in pixels
LineHeight == 2                 \* the lineHeight option
ViewportHeight == 2             \* getLayoutInfo().height
ScrollHeights == {2, 4, 6}      \* values of getScrollHeight()
ScrollTops == {0, 2, 4}         \* values of getScrollTop()
padding == 16                   \* added to the text height
MaxHeightValue == 21            \* the MAX_HEIGHT option, in pixels
NL == "\n"
Chars == {"a", NL}

Kinds == {"update", "append", "maybe-scroll", "reveal", "maybe-resume",
          "diff", "appendDiff", "revealDiff"}

(***************************************************************************)
(* Optional values: null is the empty sequence, a value v is <<v>>.        *)
(***************************************************************************)
None == <<>>
Some(v) == <<v>>
IsSome(o) == o # <<>>
Get(o) == o[1]

\* the texts and languages the callers pass in
CreateTexts == {<<"a">>, <<"a", NL, "a">>}
UpdateTexts == {<<>>, <<"a", NL>>, <<"a", "a", "a">>, <<NL, "a">>}
AppendTexts == {<<>>, <<"a">>}
CreateLangs == {"js"}

RECURSIVE Join(_)
Join(ss) == IF ss = <<>> THEN <<>> ELSE Head(ss) \o Join(Tail(ss))

\* String.prototype.startsWith
StartsWith(s, p) == Len(p) <= Len(s) /\ SubSeq(s, 1, Len(p)) = p
\* String.prototype.slice(from) with a 0-based index
SliceFrom(s, from) == SubSeq(s, from + 1, Len(s))
\* String.prototype.slice(from, to), 0-based, end exclusive
Slice(s, from, to) == SubSeq(s, from + 1, to)

Min(a, b) == IF a < b THEN a ELSE b
Max(a, b) == IF a > b THEN a ELSE b

(***************************************************************************)
(* The text model of the editing surface (ITextModel).                     *)
(***************************************************************************)
RECURSIVE CountNL(_)
CountNL(t) ==
  IF t = <<>> THEN 0
  ELSE (IF Head(t) = NL THEN 1 ELSE 0) + CountNL(Tail(t))

getLineCount(t) == 1 + CountNL(t)

\* 0-based offset of the first character of a 1-based line
LineStart(t, line) ==
  IF line <= 1 THEN 0
  ELSE LET i == CHOOSE k \in 1..Len(t) :
                  /\ t[k] = NL
                  /\ CountNL(SubSeq(t, 1, k)) = line - 1
       IN i

LineLength(t, line) ==
  LET s == LineStart(t, line)
      rest == SliceFrom(t, s)
      ends == {k \in 1..Len(rest) : rest[k] = NL}
  IN IF ends = {} THEN Len(rest)
     ELSE (CHOOSE k \in ends : \A j \in ends : k <= j) - 1

getLineMaxColumn(t, line) == LineLength(t, line) + 1

getPositionAt(t, offset) ==
  LET off == Max(0, Min(offset, Len(t)))
      line == 1 + CountNL(SubSeq(t, 1, off))
  IN [lineNumber |-> line, column |-> off - LineStart(t, line) + 1]

getOffsetAt(t, pos) ==
  LET line == Max(1, Min(pos.lineNumber, getLineCount(t)))
      col == Max(1, Min(pos.column, getLineMaxColumn(t, line)))
  IN LineStart(t, line) + col - 1

Range(sl, sc, el, ec) ==
  [start |-> [lineNumber |-> sl, column |-> sc],
   end |-> [lineNumber |-> el, column |-> ec]]

\* ITextModel.applyEdits / IStandaloneCodeEditor.executeEdits with one edit
applyEdits(t, range, text) ==
  LET so == getOffsetAt(t, range.start)
      eo == getOffsetAt(t, range.end)
  IN SubSeq(t, 1, so) \o text \o SubSeq(t, Max(so, eo) + 1, Len(t))

\* the edit every append path builds: an empty range at the end of the last line
EndRange(t) ==
  LET lastLine == getLineCount(t)
      lastColumn == getLineMaxColumn(t, lastLine)
  IN Range(lastLine, lastColumn, lastLine, lastColumn)

(***************************************************************************)
(* computeMinimalEdit (minimalEdit.ts), indices 0-based as in the source.  *)
(***************************************************************************)
RECURSIVE PrefixLen(_, _, _)
PrefixLen(prev, next, i) ==
  IF i < Len(prev) /\ i < Len(next) /\ prev[i + 1] = next[i + 1]
  THEN PrefixLen(prev, next, i + 1)
  ELSE i

RECURSIVE SuffixScan(_, _, _, _, _)
SuffixScan(prev, next, start, endPrev, endNext) ==
  IF endPrev >= start /\ endNext >= start /\ prev[endPrev + 1] = next[endNext + 1]
  THEN SuffixScan(prev, next, start, endPrev - 1, endNext - 1)
  ELSE [endPrev |-> endPrev, endNext |-> endNext]

\* a computeMinimalEdit that returns a result for equal texts too
computeMinimalEdit_NeverNull(prev, next) ==
  LET start == PrefixLen(prev, next, 0)
      e == SuffixScan(prev, next, start, Len(prev) - 1, Len(next) - 1)
  IN Some([start |-> start,
           endPrevIncl |-> e.endPrev,
           endNextIncl |-> e.endNext,
           replaceText |-> Slice(next, start, e.endNext + 1)])

\* a computeMinimalEdit that does not look for a common suffix
computeMinimalEdit_NoSuffix(prev, next) ==
  IF prev = next THEN None
  ELSE Some([start |-> PrefixLen(prev, next, 0),
             endPrevIncl |-> Len(prev) - 1,
             endNextIncl |-> Len(next) - 1,
             replaceText |-> SliceFrom(next, PrefixLen(prev, next, 0))])

computeMinimalEdit(prev, next) ==
  IF prev = next THEN None
  ELSE LET start == PrefixLen(prev, next, 0)
           e == SuffixScan(prev, next, start, Len(prev) - 1, Len(next) - 1)
       IN Some([start |-> start,
                endPrevIncl |-> e.endPrev,
                endNextIncl |-> e.endNext,
                replaceText |-> Slice(next, start, e.endNext + 1)])

\* code.detect.ts: a language name is mapped to the id the buffer carries;
\* here a total function with non-empty results that folds one alias
processedLanguage(language) ==
  IF language = "sh" THEN "shell" ELSE language

(***************************************************************************)
(* The world the handlers act on.                                          *)
(***************************************************************************)
World ==
  [ids |-> ids, rafQueue |-> rafQueue, nextId |-> nextId,
   timers |-> timers, nextTimerId |-> nextTimerId, ed |-> ed, diff |-> diff]

SetMax(S) == IF S = {} THEN 0 ELSE CHOOSE x \in S : \A y \in S : y <= x

\* Handles are opaque: after each step the browser's next handle is renumbered
\* to the first value above every handle still referenced anywhere, so that
\* runs differing only in the handle values they saw reach the same state.
FrameHandles(w, fr) ==
  {w.ids[k] : k \in DOMAIN w.ids} \cup {w.rafQueue[i].id : i \in 1..Len(w.rafQueue)}
    \cup {fr[i] : i \in 1..Len(fr)}

TimerHandles(w) ==
  {t.id : t \in w.timers}
    \cup {w.ed[m].revealDebounceId : m \in DOMAIN w.ed}
    \cup {w.ed[m].revealIdleTimerId : m \in DOMAIN w.ed}
    \cup {w.diff.revealDebounceIdDiff, w.diff.revealIdleTimerIdDiff}

Commit(w, fr) ==
  /\ ids' = w.ids
  /\ rafQueue' = w.rafQueue
  /\ frame' = fr
  /\ nextId' = 1 + SetMax(FrameHandles(w, fr))
  /\ timers' = w.timers
  /\ nextTimerId' = 1 + SetMax(TimerHandles(w))
  /\ ed' = w.ed
  /\ diff' = w.diff

Callback(mgr, fn, arg) == [mgr |-> mgr, fn |-> fn, arg |-> arg]

RECURSIVE RemoveId(_, _)
RemoveId(q, id) ==
  IF q = <<>> THEN <<>>
  ELSE IF Head(q).id = id THEN Tail(q)
       ELSE <<Head(q)>> \o RemoveId(Tail(q), id)

QueuedIds(q) == {q[i].id : i \in 1..Len(q)}
Entry(q, id) == q[CHOOSE i \in 1..Len(q) : q[i].id = id]

\* window.requestAnimationFrame / window.cancelAnimationFrame
requestAnimationFrame(w, kind, cb) ==
  [w EXCEPT !.rafQueue = Append(@, [id |-> w.nextId, kind |-> kind, cb |-> cb]),
            !.nextId = @ + 1]

\* window.setTimeout / window.clearTimeout
setTimeout(w, cb) ==
  [w EXCEPT !.timers = @ \cup {[id |-> w.nextTimerId, cb |-> cb]},
            !.nextTimerId = @ + 1]

clearTimeout(w, id) ==
  [w EXCEPT !.timers = {t \in @ : t.id # id}]

cancelAnimationFrame(w, id) ==
  [w EXCEPT !.rafQueue = RemoveId(@, id)]

(***************************************************************************)
(* utils/raf.ts                                                            *)
(***************************************************************************)
\* a scheduler that requests the new frame without cancelling the pending one
schedule_NoCancel(w, kind, cb) ==
  [requestAnimationFrame(w, kind, cb) EXCEPT !.ids[kind] = w.nextId]

\* a cancel that clears the slot but leaves the frame request with the browser
cancel_SlotOnly(w, kind) ==
  [w EXCEPT !.ids[kind] = 0]

schedule(w, kind, cb) ==
  LET existing == w.ids[kind]
      w1 == IF existing # 0 THEN cancelAnimationFrame(w, existing) ELSE w
      w2 == requestAnimationFrame(w1, kind, cb)
  IN [w2 EXCEPT !.ids[kind] = w1.nextId]

cancel(w, kind) ==
  LET id == w.ids[kind]
  IN IF id # 0
     THEN [cancelAnimationFrame(w, id) EXCEPT !.ids[kind] = 0]
     ELSE w

(***************************************************************************)
(* core/EditorManager.ts                                                   *)
(***************************************************************************)
NewEditorManager ==
  [editorView |-> FALSE, value |-> <<>>, languageId |-> "",
   lastKnownCode |-> None, pendingUpdate |-> None,
   appendBuffer |-> <<>>, appendBufferScheduled |-> FALSE,
   shouldAutoScroll |-> TRUE, hasScrollBar |-> FALSE,
   revealDebounceId |-> 0, revealIdleTimerId |-> 0, revealLine |-> 0,
   scrollWatcher |-> FALSE, lastScrollTop |-> 0,
   scrollTop |-> 0, scrollHeight |-> 0,   \* the view's scroll geometry
   cachedLineCount |-> 0,                 \* 0 = null
   cachedComputedHeight |-> 0,            \* 0 = null
   warnings |-> 0]                        \* console.warn calls made

\* if (id != null) clearTimeout(id)
clearTimeoutOpt(w, id) == IF id # 0 THEN clearTimeout(w, id) ELSE w

\* listener installed by createEditor on onDidChangeModelContent
onDidChangeModelContent(w, m) ==
  [w EXCEPT !.ed[m].lastKnownCode = Some(w.ed[m].value),
            !.ed[m].cachedLineCount = getLineCount(w.ed[m].value)]

\* min(lineCount * lineHeight + padding, maxHeightValue), the line count being
\* the cached one when there is one
computedHeight(e) ==
  Min((IF e.cachedLineCount # 0 THEN e.cachedLineCount ELSE getLineCount(e.value))
        * LineHeight + padding,
      MaxHeightValue)

\* an edit of the live editor's model; the content listener runs synchronously
editModel(w, m, newValue) ==
  onDidChangeModelContent([w EXCEPT !.ed[m].value = newValue], m)

\* the write measureViewport makes to the fields modelled here
measureViewport(w, m) ==
  IF w.ed[m].editorView
  THEN [w EXCEPT !.ed[m].lastScrollTop = w.ed[m].scrollTop,
                 !.ed[m].cachedComputedHeight =
                    IF @ # 0 THEN @ ELSE computedHeight(w.ed[m])]
  ELSE w

\* listener installed by createEditor on onDidContentSizeChange
onDidContentSizeChangeEditor(w, m) ==
  [measureViewport([w EXCEPT !.ed[m].hasScrollBar = FALSE], m)
     EXCEPT !.ed[m].cachedLineCount = getLineCount(w.ed[m].value)]

\* hasVerticalScrollbar: the cached answer, else what the measurement finds (sb)
hasVerticalScrollbar(e, sb) == e.editorView /\ (e.hasScrollBar \/ sb)

\* the assignment to _hasScrollBar hasVerticalScrollbar makes when it measures
measureScrollbar(w, m, sb) ==
  IF w.ed[m].editorView /\ ~w.ed[m].hasScrollBar
  THEN [measureViewport(w, m) EXCEPT !.ed[m].hasScrollBar = sb] ELSE w

maybeScrollToBottom(w, m, targetLine) ==
  schedule(w, "maybe-scroll", Callback(m, "maybeScroll", targetLine))

performReveal(w, m, line) ==
  schedule(w, "reveal", Callback(m, "reveal", line))

\* a timer armed without clearing the one already pending
armRevealTimer_NoClear(w, m, line) ==
  IF cfg.revealBatchOnIdleMs > 0
  THEN [setTimeout(w, Callback(m, "revealIdle", line))
          EXCEPT !.ed[m].revealIdleTimerId = w.nextTimerId]
  ELSE [setTimeout(w, Callback(m, "revealDebounce", line))
          EXCEPT !.ed[m].revealDebounceId = w.nextTimerId]

\* the timer the frame callback of maybeScrollToBottom arms: the idle batch
\* when revealBatchOnIdleMs is positive, the debounce otherwise
armRevealTimer(w, m, line) ==
  LET e == w.ed[m]
  IN IF cfg.revealBatchOnIdleMs > 0
     THEN [setTimeout(clearTimeoutOpt(w, e.revealIdleTimerId),
                      Callback(m, "revealIdle", line))
             EXCEPT !.ed[m].revealIdleTimerId = w.nextTimerId]
     ELSE [setTimeout(clearTimeoutOpt(w, e.revealDebounceId),
                      Callback(m, "revealDebounce", line))
             EXCEPT !.ed[m].revealDebounceId = w.nextTimerId]

\* a frame callback of maybeScrollToBottom that ignores the follower's state
maybeScrollCallback_IgnoreFollower(w, m, targetLine, sb) ==
  LET e == w.ed[m]
      line == IF targetLine # 0 THEN targetLine ELSE getLineCount(e.value)
  IN IF ~cfg.autoScrollOnUpdate THEN w
     ELSE IF ~hasVerticalScrollbar(e, sb) THEN measureScrollbar(w, m, sb)
     ELSE armRevealTimer(measureScrollbar(w, m, sb), m, line)

\* the frame callback of maybeScrollToBottom; sb is what the layout
\* measurement of hasVerticalScrollbar finds when it has to measure
maybeScrollCallback(w, m, targetLine, sb) ==
  LET e == w.ed[m]
      checked == cfg.autoScrollOnUpdate /\ e.shouldAutoScroll
      line == IF targetLine # 0 THEN targetLine ELSE getLineCount(e.value)
  IN IF ~checked THEN w
     ELSE IF ~hasVerticalScrollbar(e, sb) THEN measureScrollbar(w, m, sb)
     ELSE armRevealTimer(measureScrollbar(w, m, sb), m, line)

revealCallback(w, m, line) ==
  IF w.ed[m].editorView THEN [w EXCEPT !.ed[m].revealLine = line] ELSE w

\* userIsNearBottom, on what measureViewport reads from the view
userIsNearBottom(e) ==
  IF ~e.editorView THEN TRUE
  ELSE LET lineThreshold == cfg.autoScrollThresholdLines * LineHeight
           threshold == Max(lineThreshold, cfg.autoScrollThresholdPx)
           distance == e.scrollHeight - (e.scrollTop + ViewportHeight)
       IN distance <= threshold

\* the frame callback onMaybeResume schedules
maybeResumeCallback(w, m) ==
  [measureViewport(w, m) EXCEPT !.ed[m].shouldAutoScroll = userIsNearBottom(w.ed[m])]

\* utils/scroll.ts: the watcher records the view's scroll position as the last one
createScrollWatcherForEditor(w, m) ==
  [w EXCEPT !.ed[m].scrollWatcher = TRUE,
            !.ed[m].lastScrollTop = w.ed[m].scrollTop]

\* a listener that treats a scroll up like any other scroll
onDidScrollChange_NoPause(w, m, currentTop) ==
  schedule([w EXCEPT !.ed[m].lastScrollTop = currentTop],
           "maybe-resume", Callback(m, "maybeResume", 0))

\* the watcher's onDidScrollChange listener, for an event reporting currentTop
onDidScrollChange(w, m, currentTop) ==
  LET delta == currentTop - w.ed[m].lastScrollTop
      w1 == [w EXCEPT !.ed[m].lastScrollTop = currentTop]
  IN IF delta < 0
     THEN [w1 EXCEPT !.ed[m].shouldAutoScroll = FALSE]
     ELSE schedule(w1, "maybe-resume", Callback(m, "maybeResume", 0))

cleanup(w, m) ==
  LET w1 == cancel(w, "update")
      w2 == cancel([w1 EXCEPT !.ed[m].pendingUpdate = None], "append")
  IN [w2 EXCEPT !.ed[m].appendBufferScheduled = FALSE,
                !.ed[m].appendBuffer = <<>>,
                !.ed[m].editorView = FALSE,
                !.ed[m].value = <<>>,
                !.ed[m].languageId = "",
                !.ed[m].revealLine = 0,
                !.ed[m].scrollTop = 0,
                !.ed[m].scrollHeight = 0,
                !.ed[m].lastKnownCode = None,
                !.ed[m].scrollWatcher = FALSE]

\* a safeClean that tears the editor down as cleanup does
safeClean_Dispose(w, m) == cleanup(w, m)

safeClean(w, m) ==
  LET w1 == cancel(w, "update")
      w2 == clearTimeoutOpt(w1, w.ed[m].revealDebounceId)
  IN [w2 EXCEPT !.ed[m].pendingUpdate = None,
                !.ed[m].revealDebounceId = 0,
                !.ed[m].scrollWatcher = FALSE,
                !.ed[m].hasScrollBar = FALSE,
                !.ed[m].shouldAutoScroll = cfg.autoScrollInitial,
                !.ed[m].lastScrollTop = 0]

createEditor(w, m, code, language) ==
  LET w1 == cleanup(w, m)
      lang == IF processedLanguage(language) # "" THEN processedLanguage(language)
              ELSE language
      w2 == [w1 EXCEPT !.ed[m].editorView = TRUE,
                       !.ed[m].value = code,
                       !.ed[m].languageId = lang,
                       !.ed[m].scrollTop = 0,
                       !.ed[m].scrollHeight = getLineCount(code) * LineHeight,
                       !.ed[m].lastKnownCode = Some(code)]
      w3 == clearTimeoutOpt(w2, w.ed[m].revealDebounceId)
      w4 == clearTimeoutOpt(w3, w.ed[m].revealIdleTimerId)
      w5 == [w4 EXCEPT !.ed[m].revealDebounceId = 0,
                       !.ed[m].revealIdleTimerId = 0,
                       !.ed[m].cachedComputedHeight =
                          computedHeight([w.ed[m] EXCEPT !.value = code]),
                       !.ed[m].cachedLineCount = getLineCount(code),
                       !.ed[m].shouldAutoScroll = cfg.autoScrollInitial]
  IN maybeScrollToBottom(createScrollWatcherForEditor(w5, m), m, 0)

\* an updateCode that keeps the payload already pending
updateCode_KeepFirst(w, m, newCode, codeLanguage) ==
  schedule([w EXCEPT !.ed[m].pendingUpdate =
                        IF IsSome(@) THEN @
                        ELSE Some([code |-> newCode, lang |-> codeLanguage])],
           "update", Callback(m, "flushPendingUpdate", 0))

\* an updateCode that also writes the new text into the live buffer at once
updateCode_Immediate(w, m, newCode, codeLanguage) ==
  schedule([(IF w.ed[m].editorView THEN editModel(w, m, newCode) ELSE w)
              EXCEPT !.ed[m].pendingUpdate =
                        Some([code |-> newCode, lang |-> codeLanguage])],
           "update", Callback(m, "flushPendingUpdate", 0))

updateCode(w, m, newCode, codeLanguage) ==
  schedule([w EXCEPT !.ed[m].pendingUpdate =
                        Some([code |-> newCode, lang |-> codeLanguage])],
           "update", Callback(m, "flushPendingUpdate", 0))

\* this.lastKnownCode = model.getValue()
readBackLastKnownCode(w, m) ==
  [w EXCEPT !.ed[m].lastKnownCode = Some(w.ed[m].value)]

\* the tail of appendCode: a non-empty text is also pushed on the append
\* buffer, and a flush of the buffer is scheduled unless one already is
bufferAppend(w, m, appendText) ==
  IF appendText = <<>> THEN w
  ELSE IF w.ed[m].appendBufferScheduled
  THEN [w EXCEPT !.ed[m].appendBuffer = Append(@, appendText)]
  ELSE schedule([w EXCEPT !.ed[m].appendBuffer = Append(@, appendText),
                          !.ed[m].appendBufferScheduled = TRUE],
                "append", Callback(m, "flushAppendBuffer", 0))

\* an appendCode that leaves the edit to the buffered flush
appendCode_Deferred(w, m, appendText, codeLanguage) ==
  IF ~w.ed[m].editorView THEN w ELSE bufferAppend(w, m, appendText)

\* codeLanguage is None when the optional argument is omitted
appendCode(w, m, appendText, codeLanguage) ==
  LET e == w.ed[m]
      processedCodeLanguage ==
        IF IsSome(codeLanguage) /\ Get(codeLanguage) # ""
        THEN processedLanguage(Get(codeLanguage)) ELSE e.languageId
      w1 == IF processedCodeLanguage # "" /\ e.languageId # processedCodeLanguage
            THEN [w EXCEPT !.ed[m].languageId = processedCodeLanguage] ELSE w
      w2 == editModel(w1, m, applyEdits(e.value, EndRange(e.value), appendText))
  IN IF ~e.editorView THEN w
     ELSE bufferAppend(readBackLastKnownCode(w2, m), m, appendText)

\* an applyMinimalEdit whose range stops one character short
applyMinimalEdit_ShortRange(w, m, prev, next) ==
  LET e == w.ed[m]
      res == computeMinimalEdit(prev, next)
  IN IF ~e.editorView \/ ~IsSome(res) THEN w
     ELSE LET r == Get(res)
              rangeStart == getPositionAt(e.value, r.start)
              rangeEnd == getPositionAt(e.value, r.endPrevIncl)
              range == Range(rangeStart.lineNumber, rangeStart.column,
                             rangeEnd.lineNumber, rangeEnd.column)
          IN editModel(w, m, applyEdits(e.value, range, r.replaceText))

applyMinimalEdit(w, m, prev, next) ==
  LET e == w.ed[m]
      res == computeMinimalEdit(prev, next)
  IN IF ~e.editorView \/ ~IsSome(res) THEN w
     ELSE LET r == Get(res)
              rangeStart == getPositionAt(e.value, r.start)
              rangeEnd == getPositionAt(e.value, r.endPrevIncl + 1)
              range == Range(rangeStart.lineNumber, rangeStart.column,
                             rangeEnd.lineNumber, rangeEnd.column)
          IN editModel(w, m, applyEdits(e.value, range, r.replaceText))

\* a follow-up requested only when the buffer gained lines
scrollIfLineCountChanged_OnlyGrowth(w, m, prevLineCount) ==
  IF getLineCount(w.ed[m].value) > prevLineCount
  THEN maybeScrollToBottom(w, m, getLineCount(w.ed[m].value))
  ELSE w

\* if (newLineCount !== prevLineCount) this.maybeScrollToBottom(newLineCount)
scrollIfLineCountChanged(w, m, prevLineCount) ==
  IF getLineCount(w.ed[m].value) # prevLineCount
  THEN maybeScrollToBottom(w, m, getLineCount(w.ed[m].value))
  ELSE w

setLastKnownCode(w, m, code) == [w EXCEPT !.ed[m].lastKnownCode = Some(code)]

flushPendingUpdate(w, m) ==
  LET e == w.ed[m]
  IN IF ~IsSome(e.pendingUpdate) \/ ~e.editorView THEN w
     ELSE
       LET newCode == Get(e.pendingUpdate).code
           codeLanguage == Get(e.pendingUpdate).lang
           w0 == [w EXCEPT !.ed[m].pendingUpdate = None]
           processedCodeLanguage == processedLanguage(codeLanguage)
           languageId == e.languageId
           prevCode == IF IsSome(e.lastKnownCode) THEN Get(e.lastKnownCode) ELSE e.value
           prevLineCount == getLineCount(e.value)
       IN IF languageId # processedCodeLanguage
          THEN LET w1 == IF processedCodeLanguage # ""
                         THEN [w0 EXCEPT !.ed[m].languageId = processedCodeLanguage]
                         ELSE w0
               IN scrollIfLineCountChanged(
                    setLastKnownCode(editModel(w1, m, newCode), m, newCode),
                    m, prevLineCount)
          ELSE IF prevCode = newCode THEN w0
          ELSE IF StartsWith(newCode, prevCode) /\ Len(prevCode) < Len(newCode)
          THEN LET suffix == SliceFrom(newCode, Len(prevCode))
               IN setLastKnownCode(
                    IF suffix # <<>>
                    THEN appendCode(w0, m, suffix, Some(codeLanguage))
                    ELSE w0,
                    m, newCode)
          ELSE scrollIfLineCountChanged(
                 setLastKnownCode(applyMinimalEdit(w0, m, prevCode, newCode),
                                  m, newCode),
                 m, prevLineCount)

\* if (this.lastKnownCode != null) this.lastKnownCode = this.lastKnownCode + text
extendLastKnownCode(w, m, text) ==
  IF IsSome(w.ed[m].lastKnownCode)
  THEN [w EXCEPT !.ed[m].lastKnownCode = Some(Get(@) \o text)]
  ELSE w

flushAppendBuffer(w, m) ==
  LET e == w.ed[m]
  IN IF ~e.editorView \/ e.appendBuffer = <<>> THEN w
     ELSE
       LET text == Join(e.appendBuffer)
           w1 == [w EXCEPT !.ed[m].appendBufferScheduled = FALSE,
                           !.ed[m].appendBuffer = <<>>]
           lastLine == getLineCount(e.value)
           w2 == editModel(w1, m, applyEdits(e.value, EndRange(e.value), text))
       IN scrollIfLineCountChanged(extendLastKnownCode(w2, m, text), m, lastLine)

\* languages.includes(language)
Includes(languages, language) == \E i \in DOMAIN languages : languages[i] = language

\* a setLanguage that does not look at the allowed languages
setLanguage_Unchecked(w, m, language, languages) ==
  IF w.ed[m].editorView THEN [w EXCEPT !.ed[m].languageId = language] ELSE w

setLanguage(w, m, language, languages) ==
  IF Includes(languages, language)
  THEN (IF w.ed[m].editorView /\ w.ed[m].languageId # language
        THEN [w EXCEPT !.ed[m].languageId = language]
        ELSE w)
  ELSE [w EXCEPT !.ed[m].warnings = @ + 1]

(***************************************************************************)
(* core/DiffEditorManager.ts                                               *)
(***************************************************************************)
DiffMgr == 0    \* owner tag of the dual manager's callbacks

NewDiffEditorManager ==
  [diffEditorView |-> FALSE,
   originalValue |-> <<>>, modifiedValue |-> <<>>,
   originalLang |-> "", modifiedLang |-> "",
   lastKnownOriginalCode |-> None, lastKnownModifiedCode |-> None,
   lastKnownModifiedLineCount |-> 0,
   pendingDiffUpdate |-> None,
   shouldAutoScrollDiff |-> TRUE, hasScrollBar |-> FALSE,
   lastRevealLineDiff |-> 0,
   revealDebounceIdDiff |-> 0, revealIdleTimerIdDiff |-> 0,
   appendBufferDiff |-> <<>>, appendBufferDiffScheduled |-> FALSE,
   revealLine |-> 0,
   diffScrollWatcher |-> FALSE, lastScrollTopDiff |-> 0,
   cachedScrollHeightDiff |-> None,
   scrollTop |-> 0,                \* the modified view's scroll position
   scrollHeightOriginal |-> 0,     \* the two views' scroll heights
   scrollHeightModified |-> 0,
   warnings |-> 0]                 \* console.warn calls made

performRevealDiff(w, line) ==
  schedule(w, "revealDiff", Callback(DiffMgr, "revealDiff", line))

revealDiffCallback(w, line) ==
  [w EXCEPT !.diff.revealLine = IF w.diff.diffEditorView THEN line ELSE @,
            !.diff.lastRevealLineDiff = line]

\* the timer maybeScrollDiffToBottom arms: the idle batch when
\* revealBatchOnIdleMs is positive, the debounce otherwise
armRevealTimerDiff(w, line, currentLine) ==
  LET d == w.diff
  IN IF cfg.revealBatchOnIdleMs > 0
     THEN [setTimeout(clearTimeoutOpt(w, d.revealIdleTimerIdDiff),
                      Callback(DiffMgr, "revealIdleDiff", line))
             EXCEPT !.diff.revealIdleTimerIdDiff = w.nextTimerId]
     ELSE [setTimeout(clearTimeoutOpt(w, d.revealDebounceIdDiff),
                      Callback(DiffMgr, "revealDebounceDiff", line))
             EXCEPT !.diff.revealDebounceIdDiff = w.nextTimerId,
                    !.diff.lastKnownModifiedLineCount = currentLine]

\* sb is what hasVerticalScrollbarModified finds when it has to measure
maybeScrollDiffToBottom(w, targetLine, sb) ==
  LET d == w.diff
      checked == cfg.diffAutoScroll /\ cfg.autoScrollOnUpdate /\ d.shouldAutoScrollDiff
      has == d.hasScrollBar \/ sb
      w1 == IF checked /\ ~d.hasScrollBar THEN [w EXCEPT !.diff.hasScrollBar = sb] ELSE w
      currentLine == getLineCount(d.modifiedValue)
      line == targetLine
      prevLine == IF d.lastKnownModifiedLineCount # 0
                  THEN d.lastKnownModifiedLineCount ELSE currentLine
  IN IF ~d.diffEditorView THEN w
     ELSE IF ~(checked /\ has) THEN w1
     ELSE IF prevLine = currentLine /\ line = currentLine THEN w1
     ELSE IF d.lastRevealLineDiff # 0 /\ d.lastRevealLineDiff = line THEN w1
     ELSE armRevealTimerDiff(w1, line, currentLine)

\* side is "original" or "modified"
appendToModel(w, side, appendText) ==
  IF appendText = <<>> THEN w
  ELSE IF side = "original"
  THEN [w EXCEPT !.diff.originalValue =
                    applyEdits(@, EndRange(@), appendText)]
  ELSE LET v == applyEdits(w.diff.modifiedValue, EndRange(w.diff.modifiedValue),
                           appendText)
       IN [w EXCEPT !.diff.modifiedValue = v,
                    !.diff.lastKnownModifiedLineCount = getLineCount(v)]

applyMinimalEditToModel(w, side, prev, next) ==
  LET res == computeMinimalEdit(prev, next)
      t == IF side = "original" THEN w.diff.originalValue ELSE w.diff.modifiedValue
  IN IF ~IsSome(res) THEN w
     ELSE LET r == Get(res)
              rangeStart == getPositionAt(t, r.start)
              rangeEnd == getPositionAt(t, r.endPrevIncl + 1)
              range == Range(rangeStart.lineNumber, rangeStart.column,
                             rangeEnd.lineNumber, rangeEnd.column)
              v == applyEdits(t, range, r.replaceText)
          IN IF side = "original"
             THEN [w EXCEPT !.diff.originalValue = v]
             ELSE [w EXCEPT !.diff.modifiedValue = v,
                            !.diff.lastKnownModifiedLineCount = getLineCount(v)]

userIsNearBottomDiff(d) ==
  IF ~d.diffEditorView THEN TRUE
  ELSE LET lineThreshold == cfg.autoScrollThresholdLines * LineHeight
           threshold == Max(lineThreshold, cfg.autoScrollThresholdPx)
           st == d.scrollTop
           sh == IF IsSome(d.cachedScrollHeightDiff)
                 THEN Get(d.cachedScrollHeightDiff) ELSE d.scrollHeightModified
           distance == sh - (st + ViewportHeight)
       IN distance <= threshold

\* utils/scroll.ts on the modified view, installed when diffAutoScroll is set
createScrollWatcherForDiff(w) ==
  IF cfg.diffAutoScroll
  THEN [w EXCEPT !.diff.diffScrollWatcher = TRUE,
                 !.diff.lastScrollTopDiff = w.diff.scrollTop]
  ELSE w

\* the watcher's onDidScrollChange listener on the modified view
onDidScrollChangeDiff(w, currentTop) ==
  LET delta == currentTop - w.diff.lastScrollTopDiff
      d1 == [w.diff EXCEPT !.lastScrollTopDiff = currentTop]
  IN IF delta < 0
     THEN [w EXCEPT !.diff = [d1 EXCEPT !.shouldAutoScrollDiff = FALSE]]
     ELSE [w EXCEPT !.diff = [d1 EXCEPT !.shouldAutoScrollDiff = userIsNearBottomDiff(d1)]]

\* the onDidContentSizeChange listeners of the two views; side is "original"
\* or "modified"
onDidContentSizeChange(w, side) ==
  [w EXCEPT !.diff.hasScrollBar = FALSE,
            !.diff.cachedScrollHeightDiff =
               Some(IF side = "original" THEN w.diff.scrollHeightOriginal
                    ELSE w.diff.scrollHeightModified)]

\* this.cachedScrollHeightDiff = me.getScrollHeight()
cacheScrollHeightDiff(w) ==
  [w EXCEPT !.diff.cachedScrollHeightDiff = Some(w.diff.scrollHeightModified)]

cleanupDiff(w) ==
  LET w1 == cancel(w, "diff")
      w2 == cancel([w1 EXCEPT !.diff.pendingDiffUpdate = None], "appendDiff")
      w3 == clearTimeoutOpt(w2, w.diff.revealDebounceIdDiff)
  IN [w3 EXCEPT !.diff.appendBufferDiffScheduled = FALSE,
                !.diff.appendBufferDiff = <<>>,
                !.diff.diffEditorView = FALSE,
                !.diff.originalValue = <<>>,
                !.diff.modifiedValue = <<>>,
                !.diff.originalLang = "",
                !.diff.modifiedLang = "",
                !.diff.revealLine = 0,
                !.diff.diffScrollWatcher = FALSE,
                !.diff.scrollTop = 0,
                !.diff.scrollHeightOriginal = 0,
                !.diff.scrollHeightModified = 0,
                !.diff.lastKnownOriginalCode = None,
                !.diff.lastKnownModifiedCode = None,
                !.diff.revealDebounceIdDiff = 0,
                !.diff.lastRevealLineDiff = 0]

safeCleanDiff(w) ==
  LET w1 == cancel(w, "diff")
      w2 == clearTimeoutOpt(w1, w.diff.revealDebounceIdDiff)
  IN [w2 EXCEPT !.diff.pendingDiffUpdate = None,
                !.diff.diffScrollWatcher = FALSE,
                !.diff.hasScrollBar = FALSE,
                !.diff.shouldAutoScrollDiff = cfg.autoScrollInitial /\ cfg.diffAutoScroll,
                !.diff.lastScrollTopDiff = 0,
                !.diff.revealDebounceIdDiff = 0,
                !.diff.lastRevealLineDiff = 0]

createDiffEditor(w, originalCode, modifiedCode, language, sb) ==
  LET w1 == cleanupDiff(w)
      lang == IF processedLanguage(language) # "" THEN processedLanguage(language)
              ELSE language
      w2 == [w1 EXCEPT !.diff.diffEditorView = TRUE,
                       !.diff.originalValue = originalCode,
                       !.diff.modifiedValue = modifiedCode,
                       !.diff.originalLang = lang,
                       !.diff.modifiedLang = lang,
                       !.diff.lastKnownOriginalCode = Some(originalCode),
                       !.diff.lastKnownModifiedCode = Some(modifiedCode),
                       !.diff.scrollTop = 0,
                       !.diff.scrollHeightOriginal =
                          getLineCount(originalCode) * LineHeight,
                       !.diff.scrollHeightModified =
                          getLineCount(modifiedCode) * LineHeight,
                       !.diff.shouldAutoScrollDiff =
                          cfg.autoScrollInitial /\ cfg.diffAutoScroll]
  IN cacheScrollHeightDiff(
       maybeScrollDiffToBottom(createScrollWatcherForDiff(w2),
                               getLineCount(modifiedCode), sb))

\* if (this.lastKnownOriginalCode == null) ... = o.getValue(), and the same
\* for the modified side
initLastKnownDiff(w) ==
  [w EXCEPT !.diff.lastKnownOriginalCode =
               IF IsSome(@) THEN @ ELSE Some(w.diff.originalValue),
            !.diff.lastKnownModifiedCode =
               IF IsSome(@) THEN @ ELSE Some(w.diff.modifiedValue)]

\* flushPendingDiffUpdate bringing the original side to the pending text
flushOriginalSide(w, original) ==
  LET prevO == Get(w.diff.lastKnownOriginalCode)
  IN IF prevO = original THEN w
     ELSE [(IF StartsWith(original, prevO) /\ Len(prevO) < Len(original)
            THEN appendToModel(w, "original", SliceFrom(original, Len(prevO)))
            ELSE applyMinimalEditToModel(w, "original", prevO, original))
             EXCEPT !.diff.lastKnownOriginalCode = Some(original)]

\* if (newMLineCount !== prevMLineCount) this.maybeScrollDiffToBottom(newMLineCount)
scrollDiffIfLineCountChanged(w, prevMLineCount, sb) ==
  IF getLineCount(w.diff.modifiedValue) # prevMLineCount
  THEN maybeScrollDiffToBottom(w, getLineCount(w.diff.modifiedValue), sb)
  ELSE w

\* flushPendingDiffUpdate bringing the modified side to the pending text
flushModifiedSide(w, modified, sb) ==
  LET prevM == Get(w.diff.lastKnownModifiedCode)
      prevMLineCount == getLineCount(w.diff.modifiedValue)
  IN IF prevM = modified THEN w
     ELSE scrollDiffIfLineCountChanged(
            [(IF StartsWith(modified, prevM) /\ Len(prevM) < Len(modified)
              THEN appendToModel(w, "modified", SliceFrom(modified, Len(prevM)))
              ELSE applyMinimalEditToModel(w, "modified", prevM, modified))
               EXCEPT !.diff.lastKnownModifiedCode = Some(modified)],
            prevMLineCount, sb)

flushPendingDiffUpdate(w, sb) ==
  LET d == w.diff
  IN IF ~IsSome(d.pendingDiffUpdate) \/ ~d.diffEditorView THEN w
     ELSE
       LET original == Get(d.pendingDiffUpdate).original
           modified == Get(d.pendingDiffUpdate).modified
           lang == Get(d.pendingDiffUpdate).lang
           plang == IF IsSome(lang) /\ Get(lang) # ""
                    THEN processedLanguage(Get(lang)) ELSE ""
           w1 == [w EXCEPT !.diff.pendingDiffUpdate = None,
                           !.diff.originalLang =
                              IF plang # "" /\ d.originalLang # plang THEN plang ELSE @,
                           !.diff.modifiedLang =
                              IF plang # "" /\ d.originalLang # plang THEN plang ELSE @]
       IN flushModifiedSide(flushOriginalSide(initLastKnownDiff(w1), original),
                            modified, sb)

\* updateDiff appending at once to a side whose new text extends the known one
appendSideNow(w, side, prev, code) ==
  IF code # prev /\ StartsWith(code, prev)
  THEN IF side = "original"
       THEN [appendToModel(w, side, SliceFrom(code, Len(prev)))
               EXCEPT !.diff.lastKnownOriginalCode = Some(code)]
       ELSE [appendToModel(w, side, SliceFrom(code, Len(prev)))
               EXCEPT !.diff.lastKnownModifiedCode = Some(code)]
  ELSE w

\* the scroll check updateDiff makes after an immediate append to the modified side
scrollAfterAppendNow(w, appended, sb) ==
  IF appended THEN maybeScrollDiffToBottom(w, getLineCount(w.diff.modifiedValue), sb)
  ELSE w

\* the tail of updateDiff: what was not applied at once is left to the flush
deferRest(w, originalCode, modifiedCode) ==
  IF Some(originalCode) # w.diff.lastKnownOriginalCode
     \/ Some(modifiedCode) # w.diff.lastKnownModifiedCode
  THEN schedule([w EXCEPT !.diff.pendingDiffUpdate =
                            Some([original |-> originalCode,
                                  modified |-> modifiedCode,
                                  lang |-> None])],
                "diff", Callback(DiffMgr, "flushPendingDiffUpdate", 0))
  ELSE w

\* the immediate part of updateDiff, once the known texts are initialised
updateDiffNow(w, originalCode, modifiedCode, sb) ==
  LET prevO == Get(w.diff.lastKnownOriginalCode)
      prevM == Get(w.diff.lastKnownModifiedCode)
  IN deferRest(
       scrollAfterAppendNow(
         appendSideNow(appendSideNow(w, "original", prevO, originalCode),
                       "modified", prevM, modifiedCode),
         modifiedCode # prevM /\ StartsWith(modifiedCode, prevM), sb),
       originalCode, modifiedCode)

\* codeLanguage is None when the optional argument is omitted
updateDiff(w, originalCode, modifiedCode, codeLanguage, sb) ==
  LET d == w.diff
      plang == IF IsSome(codeLanguage) /\ Get(codeLanguage) # ""
               THEN processedLanguage(Get(codeLanguage)) ELSE ""
  IN IF ~d.diffEditorView THEN w
     ELSE IF plang # "" /\ (d.originalLang # plang \/ d.modifiedLang # plang)
     THEN schedule([w EXCEPT !.diff.pendingDiffUpdate =
                               Some([original |-> originalCode,
                                     modified |-> modifiedCode,
                                     lang |-> codeLanguage])],
                   "diff", Callback(DiffMgr, "flushPendingDiffUpdate", 0))
     ELSE updateDiffNow(initLastKnownDiff(w), originalCode, modifiedCode, sb)

updateOriginal(w, newCode, codeLanguage) ==
  LET d == w.diff
      lang == IF IsSome(codeLanguage) /\ Get(codeLanguage) # ""
              THEN processedLanguage(Get(codeLanguage)) ELSE ""
      w1 == IF lang # "" /\ d.originalLang # lang
            THEN [w EXCEPT !.diff.originalLang = lang] ELSE w
      prev == IF IsSome(d.lastKnownOriginalCode) THEN Get(d.lastKnownOriginalCode)
              ELSE d.originalValue
  IN IF ~d.diffEditorView THEN w
     ELSE IF prev = newCode THEN w1
     ELSE [(IF StartsWith(newCode, prev) /\ Len(prev) < Len(newCode)
            THEN appendToModel(w1, "original", SliceFrom(newCode, Len(prev)))
            ELSE applyMinimalEditToModel(w1, "original", prev, newCode))
             EXCEPT !.diff.lastKnownOriginalCode = Some(newCode)]

\* the append branch of updateModified: the append and the scroll check
appendModifiedNow(w, text, sb) ==
  scrollAfterAppendNow(appendToModel(w, "modified", text), TRUE, sb)

updateModified(w, newCode, codeLanguage, sb) ==
  LET d == w.diff
      lang == IF IsSome(codeLanguage) /\ Get(codeLanguage) # ""
              THEN processedLanguage(Get(codeLanguage)) ELSE ""
      w1 == IF lang # "" /\ d.modifiedLang # lang
            THEN [w EXCEPT !.diff.modifiedLang = lang] ELSE w
      prev == IF IsSome(d.lastKnownModifiedCode) THEN Get(d.lastKnownModifiedCode)
              ELSE d.modifiedValue
  IN IF ~d.diffEditorView THEN w
     ELSE IF prev = newCode THEN w1
     ELSE [(IF StartsWith(newCode, prev) /\ Len(prev) < Len(newCode)
            THEN appendModifiedNow(w1, SliceFrom(newCode, Len(prev)), sb)
            ELSE applyMinimalEditToModel(w1, "modified", prev, newCode))
             EXCEPT !.diff.lastKnownModifiedCode = Some(newCode)]

\* a dual setLanguage that does not look at the allowed languages
setLanguageDiff_Unchecked(w, language, languages) ==
  IF w.diff.diffEditorView
  THEN [w EXCEPT !.diff.originalLang = language, !.diff.modifiedLang = language]
  ELSE w

\* DiffEditorManager.setLanguage; the models exist while the view does
setLanguageDiff(w, language, languages) ==
  IF ~Includes(languages, language)
  THEN [w EXCEPT !.diff.warnings = @ + 1]
  ELSE IF w.diff.diffEditorView
  THEN [w EXCEPT !.diff.originalLang = language, !.diff.modifiedLang = language]
  ELSE w

appendOriginal(w, appendText, codeLanguage) ==
  LET d == w.diff
      lang == IF IsSome(codeLanguage) /\ Get(codeLanguage) # ""
              THEN processedLanguage(Get(codeLanguage)) ELSE ""
      w1 == IF lang # "" /\ d.originalLang # lang
            THEN [w EXCEPT !.diff.originalLang = lang] ELSE w
      v == applyEdits(d.originalValue, EndRange(d.originalValue), appendText)
  IN IF ~d.diffEditorView \/ appendText = <<>> THEN w
     ELSE [appendToModel(w1, "original", appendText)
             EXCEPT !.diff.lastKnownOriginalCode = Some(v)]

\* the tail of appendModified: the text is also pushed on the append buffer,
\* and a flush of the buffer is scheduled unless one already is
bufferAppendDiff(w, appendText) ==
  IF w.diff.appendBufferDiffScheduled
  THEN [w EXCEPT !.diff.appendBufferDiff = Append(@, appendText)]
  ELSE schedule([w EXCEPT !.diff.appendBufferDiff = Append(@, appendText),
                          !.diff.appendBufferDiffScheduled = TRUE],
                "appendDiff", Callback(DiffMgr, "flushAppendBufferDiff", 0))

appendModified(w, appendText, codeLanguage) ==
  LET d == w.diff
      lang == IF IsSome(codeLanguage) /\ Get(codeLanguage) # ""
              THEN processedLanguage(Get(codeLanguage)) ELSE ""
      w1 == IF lang # "" /\ d.modifiedLang # lang
            THEN [w EXCEPT !.diff.modifiedLang = lang] ELSE w
      v == applyEdits(d.modifiedValue, EndRange(d.modifiedValue), appendText)
  IN IF ~d.diffEditorView \/ appendText = <<>> THEN w
     ELSE bufferAppendDiff(
            [appendToModel(w1, "modified", appendText)
               EXCEPT !.diff.lastKnownModifiedCode = Some(v)],
            appendText)

\* this.lastKnownModifiedLineCount = newLine
setLastKnownModifiedLineCount(w) ==
  [w EXCEPT !.diff.lastKnownModifiedLineCount = getLineCount(w.diff.modifiedValue)]

flushAppendBufferDiff(w, sb) ==
  LET d == w.diff
  IN IF ~d.diffEditorView \/ d.appendBufferDiff = <<>> THEN w
     ELSE
       LET text == Join(d.appendBufferDiff)
           prevLine == getLineCount(d.modifiedValue)
           v == applyEdits(d.modifiedValue, EndRange(d.modifiedValue), text)
           w1 == [w EXCEPT !.diff.appendBufferDiffScheduled = FALSE,
                           !.diff.appendBufferDiff = <<>>,
                           !.diff.modifiedValue = v,
                           !.diff.lastKnownModifiedCode =
                              IF IsSome(@) THEN Some(Get(@) \o text) ELSE @]
       IN setLastKnownModifiedLineCount(
            scrollDiffIfLineCountChanged(w1, prevLine, sb))

(***************************************************************************)
(* The browser running due callbacks.                                      *)
(***************************************************************************)
\* the callback raf.ts hands to requestAnimationFrame: clear the slot, run cb
RunCb(w, kind, cb, sb) ==
  LET w0 == [w EXCEPT !.ids[kind] = 0]
  IN CASE cb.fn = "flushPendingUpdate" -> flushPendingUpdate(w0, cb.mgr)
       [] cb.fn = "flushAppendBuffer" -> flushAppendBuffer(w0, cb.mgr)
       [] cb.fn = "maybeScroll" -> maybeScrollCallback(w0, cb.mgr, cb.arg, sb)
       [] cb.fn = "reveal" -> revealCallback(w0, cb.mgr, cb.arg)
       [] cb.fn = "maybeResume" -> maybeResumeCallback(w0, cb.mgr)
       [] cb.fn = "flushPendingDiffUpdate" -> flushPendingDiffUpdate(w0, sb)
       [] cb.fn = "flushAppendBufferDiff" -> flushAppendBufferDiff(w0, sb)
       [] cb.fn = "revealDiff" -> revealDiffCallback(w0, cb.arg)
       [] OTHER -> w0

\* the closures handed to setTimeout by the reveal debounce and idle batch
RunTimer(w, cb) ==
  CASE cb.fn = "revealDebounce" ->
         performReveal([w EXCEPT !.ed[cb.mgr].revealDebounceId = 0], cb.mgr, cb.arg)
    [] cb.fn = "revealIdle" ->
         performReveal([w EXCEPT !.ed[cb.mgr].revealIdleTimerId = 0], cb.mgr, cb.arg)
    [] cb.fn = "revealDebounceDiff" ->
         performRevealDiff([w EXCEPT !.diff.revealDebounceIdDiff = 0], cb.arg)
    [] cb.fn = "revealIdleDiff" ->
         performRevealDiff([w EXCEPT !.diff.revealIdleTimerIdDiff = 0], cb.arg)
    [] OTHER -> w

Quiescent == rafQueue = <<>> /\ frame = <<>> /\ timers = {}

(***************************************************************************)
(* History kept for the properties.                                        *)
(***************************************************************************)
NoCall ==
  [op |-> "none", mgr |-> 0, code |-> <<>>, code2 |-> <<>>, lang |-> None, kind |-> ""]

RafKinds == {"update", "diff"}   \* kinds the bare scheduler is driven with

InitHist ==
  [call |-> NoCall,            \* the most recent API call; a call of the bare
                               \* scheduler is forgotten when the browser acts
   prevCall |-> NoCall,        \* the API call before it
   pre |-> NewEditorManager,   \* the called EditorManager just before that call
   quiet |-> TRUE,             \* nothing was scheduled when that call was made
   burst |-> 0,                \* length of the run of identical-kind calls on one
                               \* manager, uninterrupted by frames, timers or calls
   burstQuiet |-> TRUE,        \* nothing was scheduled when that run began
   ticks |-> 0,                \* frames begun since the most recent call
   flushRuns |-> 0,            \* 'update' flushes of call.mgr run since the call
   after |-> None,             \* call.mgr right after its latest 'update' flush
   checks |-> 0,               \* resume checks of call.mgr run since the call
   passes |-> 0,               \* reveal requests that passed the check of
                               \* maybeScrollToBottom with no reveal timer expiring
                               \* and no create, cleanup or safeClean in between
   passMgr |-> 0,              \* the manager of the latest of them
   passLine |-> 0,             \* the line the latest of them asked for
   expired |-> FALSE,          \* the reveal timer expired since the latest of them
   reveals |-> 0,              \* reveals executed since the latest of them
   deferred |-> {},            \* the sides an updateDiff call that found a live view
                               \* and no language mismatch did not append to at once
   diffFlushed |-> FALSE,      \* a 'diff' flush has run since the call
   mismatch |-> FALSE,         \* the call was an updateDiff on a live view naming a
                               \* recognized language that a model did not have
   acc |-> None,               \* modified text a run of appendModified calls
                               \* since createDiffEditor("", "") should produce
   issued |-> 0,               \* bare scheduler: callbacks handed out so far
   slot |-> [k \in RafKinds |-> 0],  \* callback last scheduled per kind, not yet fired
   ran |-> [t \in 1..MaxCb |-> 0],
   superseded |-> {},          \* replaced by a later schedule of the same kind
   cancelled |-> {},           \* cancelled while pending
   due |-> {},                 \* callbacks pending when the latest frame began
   grown |-> None,             \* manager and line count of the latest flush that
                               \* changed the line count of a Following manager
                               \* with autoScrollOnUpdate, or of the latest
                               \* updateDiff or updateModified call or 'diff'
                               \* flush that gave the modified buffer of a
                               \* Following dual manager more lines, no other
                               \* call made and no reveal of that line executed
                               \* since
   followed |-> FALSE]         \* a reveal of that line was executed, with no
                               \* call made since

\* the text updateDiff compares a side's new text with
KnownSide(d, side) ==
  IF side = "original"
  THEN (IF IsSome(d.lastKnownOriginalCode) THEN Get(d.lastKnownOriginalCode)
        ELSE d.originalValue)
  ELSE (IF IsSome(d.lastKnownModifiedCode) THEN Get(d.lastKnownModifiedCode)
        ELSE d.modifiedValue)

\* codeLanguage is recognized and differs from the language of a model
LanguageMismatch(d, codeLanguage) ==
  /\ IsSome(codeLanguage) /\ Get(codeLanguage) # ""
  /\ processedLanguage(Get(codeLanguage)) # ""
  /\ \/ d.originalLang # processedLanguage(Get(codeLanguage))
     \/ d.modifiedLang # processedLanguage(Get(codeLanguage))

StrictlyExtends(code, prev) == StartsWith(code, prev) /\ Len(prev) < Len(code)

HistCall(op, m, code, code2, lang) ==
  LET same == hist.call.op = op /\ hist.call.mgr = m /\ hist.ticks = 0
              /\ hist.burst > 0
  IN [hist EXCEPT
        !.call = [op |-> op, mgr |-> m, code |-> code, code2 |-> code2, lang |-> lang,
                  kind |-> ""],
        !.prevCall = hist.call,
        !.pre = IF m \in DOMAIN ed THEN ed[m] ELSE NewEditorManager,
        !.quiet = Quiescent,
        !.burst = IF same THEN hist.burst + 1 ELSE 1,
        !.burstQuiet = IF same THEN hist.burstQuiet ELSE Quiescent,
        !.ticks = 0,
        !.flushRuns = 0,
        !.after = None,
        !.checks = 0,
        !.deferred = IF op = "updateDiff" /\ diff.diffEditorView
                        /\ ~LanguageMismatch(diff, lang)
                     THEN {s \in {"original", "modified"} :
                             ~StrictlyExtends(IF s = "original" THEN code ELSE code2,
                                              KnownSide(diff, s))}
                     ELSE {},
        !.diffFlushed = FALSE,
        !.mismatch = op = "updateDiff" /\ diff.diffEditorView
                       /\ LanguageMismatch(diff, lang),
        !.grown = None,
        !.followed = FALSE,
        !.passes = IF op \in {"updateCode", "appendCode"} THEN @ ELSE 0,
        !.passMgr = IF op \in {"updateCode", "appendCode"} THEN @ ELSE 0,
        !.passLine = IF op \in {"updateCode", "appendCode"} THEN @ ELSE 0,
        !.expired = IF op \in {"updateCode", "appendCode"} THEN @ ELSE FALSE,
        !.reveals = IF op \in {"updateCode", "appendCode"} THEN @ ELSE 0,
        !.acc = IF op = "createDiffEditor" /\ code = <<>> /\ code2 = <<>>
                THEN Some(<<>>)
                ELSE IF op = "appendModified" /\ IsSome(hist.acc)
                THEN Some(Get(hist.acc) \o code)
                ELSE None]

(***************************************************************************)
(* Actions                                                                 *)
(***************************************************************************)
(***************************************************************************)
(* utils/registerMonacoThemes.ts: the highlighter cache                    *)
(***************************************************************************)
ThemeLists == {<<"dark">>, <<"dark", "light">>, <<"light", "dark">>}
LangLists == {<<"js">>, <<"ts">>, <<"js", "ts">>}

\* the order Array.prototype.sort puts the theme names in
ThemeRank(name) == IF name = "dark" THEN 1 ELSE IF name = "light" THEN 2 ELSE 3

RECURSIVE SortNames(_)
SortNames(names) ==
  IF names = <<>> THEN <<>>
  ELSE LET least == CHOOSE i \in DOMAIN names :
                      \A j \in DOMAIN names :
                         ThemeRank(names[i]) < ThemeRank(names[j])
                           \/ (ThemeRank(names[i]) = ThemeRank(names[j]) /\ i <= j)
       IN <<names[least]>>
            \o SortNames([k \in 1..(Len(names) - 1) |->
                            IF k < least THEN names[k] ELSE names[k + 1]])

\* the cache key: the JSON text of the sorted theme names
serializeThemes(themes) == SortNames(themes)

\* the themes used when the options name none, the languages of the
\* instance, and the theme list setTheme registers for a name outside the
\* instance's themes
DefaultThemes == <<"dark", "light">>
InstanceLanguages == <<"js">>
ExtendedThemes(themes, themeName) == Append(themes, themeName)
ThemeNames == {"dark", "light", "solar"}

\* the themes option of useMonaco: absent, or a list of themes
ThemeOptions == {None, Some(<<>>), Some(<<"dark">>), Some(<<"light", "dark">>)}

ThemeKeys ==
  {serializeThemes(themes) :
     themes \in ThemeLists \cup {ExtendedThemes(DefaultThemes, n) : n \in ThemeNames}}

\* cache: key -> entry (None when absent), an entry being the construction
\* whose promise it holds and its language set; made: the constructions
\* createHighlighter was invoked for, in order; log: the calls made.
\* The registration state of the module: its four flags and lists, the
\* language ids Monaco knows and the monaco.languages.register calls made,
\* the shikiToMonaco calls made and the construction last bound, the
\* registerMonacoThemes calls suspended at their await, and the pair of the
\* last registration that completed
NewHighlighterCache ==
  [cache |-> [k \in ThemeKeys |-> None], made |-> <<>>, log |-> <<>>,
   themesRegistered |-> FALSE, languagesRegistered |-> FALSE,
   currentThemes |-> <<>>, currentLanguages |-> <<>>,
   monacoLanguages |-> {}, languageRegistrations |-> 0,
   bindings |-> 0, bound |-> 0,
   waiting |-> <<>>, registered |-> None]

\* every requested language is in the entry's language set
allIncluded(entry, requestedSet) == requestedSet \subseteq entry.languages

\* createHighlighter is invoked and its promise cached under key; prev is the
\* entry it replaces
createAndCache(h, key, languages, prev) ==
  [h EXCEPT !.cache[key] = Some([id |-> Len(h.made) + 1, languages |-> languages]),
            !.made = Append(@, [key |-> key, langs |-> languages, state |-> "pending",
                                prev |-> prev])]

\* a getOrCreateHighlighter that constructs on every call
getOrCreateHighlighter_NoReuse(h, themes, languages) ==
  createAndCache(h, serializeThemes(themes),
                 {languages[i] : i \in DOMAIN languages},
                 h.cache[serializeThemes(themes)])

\* a getOrCreateHighlighter whose expanding construction drops the languages
\* the cached entry covered
getOrCreateHighlighter_RequestedOnly(h, themes, languages) ==
  LET key == serializeThemes(themes)
      requestedSet == {languages[i] : i \in DOMAIN languages}
      existing == h.cache[key]
  IN IF IsSome(existing) /\ allIncluded(Get(existing), requestedSet) THEN h
     ELSE createAndCache(h, key, requestedSet, existing)

getOrCreateHighlighter(h, themes, languages) ==
  LET key == serializeThemes(themes)
      requestedSet == {languages[i] : i \in DOMAIN languages}
      existing == h.cache[key]
  IN IF IsSome(existing)
     THEN IF allIncluded(Get(existing), requestedSet) THEN h
          ELSE createAndCache(h, key, Get(existing).languages \cup requestedSet,
                              existing)
     ELSE createAndCache(h, key, requestedSet, None)

\* the promise of construction i settles; on rejection its catch handler
\* runs: the entry, if still the cached one, gives way to the one it replaced
settle(h, i, ok) ==
  LET c == h.made[i]
      mine == IsSome(h.cache[c.key]) /\ Get(h.cache[c.key]).id = i
  IN [h EXCEPT !.made[i].state = IF ok THEN "fulfilled" ELSE "rejected",
               !.cache[c.key] = IF ~ok /\ mine THEN c.prev ELSE @]

clearHighlighterCache(h) ==
  [h EXCEPT !.cache = [k \in ThemeKeys |-> None]]

\* what the log keeps of a call: its arguments, the construction whose
\* promise served it, whether the call invoked createHighlighter, and whether
\* that promise was still pending
Logged(h0, h1, themes, languages) ==
  LET served == Get(h1.cache[serializeThemes(themes)]).id
  IN [h1 EXCEPT !.log = Append(@, [op |-> "get", themes |-> themes,
                                   languages |-> languages,
                                   served |-> served,
                                   constructed |-> Len(h1.made) > Len(h0.made),
                                   pending |-> h1.made[served].state = "pending"])]

GetOrCreateHighlighter(themes, languages) ==
  /\ ops < MaxOps
  /\ hl' = Logged(hl, getOrCreateHighlighter(hl, themes, languages), themes, languages)
  /\ ops' = ops + 1
  /\ UNCHANGED <<ids, rafQueue, nextId, frame, timers, nextTimerId, ed, diff, cfg, use,
                 edit, hist>>

registerMonacoLanguages(h, languages) ==
  IF h.languagesRegistered /\ languages = h.currentLanguages THEN h
  ELSE [h EXCEPT !.monacoLanguages = @ \cup {languages[i] : i \in DOMAIN languages},
                 !.languageRegistrations =
                    @ + Cardinality({i \in DOMAIN languages :
                                       languages[i] \notin h.monacoLanguages}),
                 !.languagesRegistered = TRUE,
                 !.currentLanguages = languages]

\* the async body of registerMonacoThemes up to its await: the call waits for
\* the promise getOrCreateHighlighter returned
awaitHighlighter(h, themes, languages) ==
  [h EXCEPT !.waiting = Append(@, [themes |-> themes, languages |-> languages,
                                   promise |-> Get(h.cache[serializeThemes(themes)]).id])]

\* a registerMonacoThemes that never takes the early return
registerMonacoThemes_NoSkip(h, themes, languages) ==
  awaitHighlighter(getOrCreateHighlighter(registerMonacoLanguages(h, languages),
                                          themes, languages),
                   themes, languages)

registerMonacoThemes(h, themes, languages) ==
  LET h1 == registerMonacoLanguages(h, languages)
  IN IF /\ h1.themesRegistered
        /\ themes = h1.currentThemes
        /\ languages = h1.currentLanguages
     THEN h1
     ELSE awaitHighlighter(getOrCreateHighlighter(h1, themes, languages),
                           themes, languages)

\* the rest of the async body once the awaited promise has settled: with a
\* highlighter, shikiToMonaco and the three assignments; the call throws
\* otherwise
resumeRegister(h, c) ==
  IF h.made[c.promise].state = "fulfilled"
  THEN [h EXCEPT !.bindings = @ + 1,
                 !.bound = c.promise,
                 !.themesRegistered = TRUE,
                 !.currentThemes = c.themes,
                 !.currentLanguages = c.languages,
                 !.registered = Some(<<c.themes, c.languages>>)]
  ELSE h

\* the microtasks: every suspended call whose promise has settled resumes,
\* in the order the calls were made
RECURSIVE resumeSettled(_, _)
resumeSettled(h, rest) ==
  IF rest = <<>> THEN h
  ELSE IF h.made[Head(rest).promise].state = "pending"
       THEN resumeSettled([h EXCEPT !.waiting = Append(@, Head(rest))], Tail(rest))
       ELSE resumeSettled(resumeRegister(h, Head(rest)), Tail(rest))

runMicrotasks(h) == resumeSettled([h EXCEPT !.waiting = <<>>], h.waiting)

(***************************************************************************)
(* useMonaco: setTheme                                                     *)
(***************************************************************************)
\* the fields of a useMonaco instance before any call: editorMgr is the
\* manager it holds (0 = null), awaiting the creation suspended at its await,
\* lastAppliedTheme the name it recorded; monacoTheme is the theme Monaco
\* shows and setThemeCalls the monaco.editor.setTheme calls made; themeCalls
\* are the setTheme calls made, in order, each with the await it is
\* suspended at, the promise awaited (0: one already resolved with null) and
\* the monaco.editor.setTheme calls it made
\* state tells an instance useMonaco returned ("ready") from a call that threw
\* and from one not made yet; option is the themes option of the call and
\* themes the list the instance works with
NewUseMonaco ==
  [state |-> "ready", option |-> None, themes |-> DefaultThemes,
   editorMgr |-> 0, diffMgr |-> FALSE, awaiting |-> None,
   lastAppliedTheme |-> None, monacoTheme |-> None, setThemeCalls |-> 0,
   themeCalls |-> <<>>]

\* a useMonaco that accepts any themes option
useMonaco_NoCheck(u, option) ==
  [u EXCEPT !.state = "ready", !.option = option,
            !.themes = IF IsSome(option) /\ Len(Get(option)) # 0
                       THEN Get(option) ELSE DefaultThemes]

\* useMonaco(monacoOptions) as far as its themes go: the option when it names
\* any theme, the default themes otherwise, and the throw when they are
\* fewer than two
useMonaco(u, option) ==
  LET themes == IF IsSome(option) /\ Len(Get(option)) # 0
                THEN Get(option) ELSE DefaultThemes
  IN IF Len(themes) < 2
     THEN [u EXCEPT !.state = "thrown", !.option = option]
     ELSE [u EXCEPT !.state = "ready", !.option = option, !.themes = themes]

UseMonaco(option) ==
  /\ use.state = "unbuilt"
  /\ use' = useMonaco(use, option)
  /\ UNCHANGED <<ids, rafQueue, nextId, frame, timers, nextTimerId, ed, diff, cfg, hl,
                 edit, ops, hist>>

\* the construction whose promise a registerMonacoThemes call hands back: the
\* one its async body waits for, or on the early return the cached one
registrationPromise(h0, h1, themes) ==
  IF Len(h1.waiting) > Len(h0.waiting) THEN h1.waiting[Len(h1.waiting)].promise
  ELSE IF IsSome(h1.cache[serializeThemes(themes)])
       THEN Get(h1.cache[serializeThemes(themes)]).id
       ELSE 0

\* await setThemeRegisterPromise(registerMonacoThemes(themes, languages)) of
\* call i: the registration starts and the call waits at the await named
awaitRegistration(t, i, themes, stage) ==
  LET h1 == registerMonacoThemes(t.h, themes, InstanceLanguages)
  IN [u |-> [t.u EXCEPT !.themeCalls[i].stage = stage,
                        !.themeCalls[i].promise =
                           registrationPromise(t.h, h1, themes)],
      h |-> h1]

\* monaco.editor.setTheme(themeName); lastAppliedTheme = themeName, the call
\* returning afterwards (no onThemeChange is configured)
applyTheme(t, i) ==
  [t EXCEPT !.u.monacoTheme = Some(t.u.themeCalls[i].theme),
            !.u.lastAppliedTheme = Some(t.u.themeCalls[i].theme),
            !.u.setThemeCalls = @ + 1,
            !.u.themeCalls[i].applied = @ + 1,
            !.u.themeCalls[i].stage = "done"]

\* what is kept of a setTheme call: its arguments, whether the theme was the
\* one last applied and whether an earlier call was still suspended when it
\* was made, and how far it has got
NewThemeCall(t, theme, force, stage) ==
  [t EXCEPT !.u.themeCalls =
              Append(@, [theme |-> theme, force |-> force,
                         same |-> t.u.lastAppliedTheme = Some(theme),
                         overlap |-> \E i \in DOMAIN t.u.themeCalls :
                                       t.u.themeCalls[i].stage # "done",
                         stage |-> stage, promise |-> 0, applied |-> 0,
                         warned |-> FALSE])]

\* a setTheme that applies the theme whatever was applied last
setThemeInternal_NoGuard(t, theme, force) ==
  awaitRegistration(NewThemeCall(t, theme, force, "start"),
                    Len(t.u.themeCalls) + 1, t.u.themes, "register")

\* setThemeInternal up to its first await; same keeps whether the theme was
\* the one last applied when the call was made
setThemeInternal(t, theme, force) ==
  IF ~force /\ Some(theme) = t.u.lastAppliedTheme
  THEN NewThemeCall(t, theme, force, "done")
  ELSE awaitRegistration(NewThemeCall(t, theme, force, "start"),
                         Len(t.u.themeCalls) + 1, t.u.themes, "register")

\* the promise call i waits for has settled
ThemeCallReady(t, i) ==
  /\ t.u.themeCalls[i].stage \in {"register", "extended"}
  /\ \/ t.u.themeCalls[i].promise = 0
     \/ t.h.made[t.u.themeCalls[i].promise].state # "pending"

\* setThemeInternal from an await on: after the first, whose failure is
\* ignored, a name among the themes is applied and any other has the
\* extended list registered; after the second the name is applied unless the
\* registration failed, which is warned of
resumeSetTheme(t, i) ==
  LET c == t.u.themeCalls[i]
  IN IF c.stage = "register"
     THEN IF \E k \in DOMAIN t.u.themes : t.u.themes[k] = c.theme
          THEN applyTheme(t, i)
          ELSE awaitRegistration(t, i, ExtendedThemes(t.u.themes, c.theme), "extended")
     ELSE IF c.promise # 0 /\ t.h.made[c.promise].state = "rejected"
          THEN [t EXCEPT !.u.themeCalls[i].stage = "done",
                         !.u.themeCalls[i].warned = TRUE]
          ELSE applyTheme(t, i)

\* the microtasks of the registrations and of the setTheme calls: the
\* suspended registrations whose promise has settled resume, then the first
\* setTheme call whose awaited promise has settled, and so on until none can
RECURSIVE runThemeMicrotasks(_)
runThemeMicrotasks(t) ==
  LET t1 == [t EXCEPT !.h = runMicrotasks(t.h)]
      ready == {i \in DOMAIN t1.u.themeCalls : ThemeCallReady(t1, i)}
  IN IF ready = {} THEN t1
     ELSE runThemeMicrotasks(resumeSetTheme(t1, CHOOSE i \in ready : \A j \in ready : i <= j))

\* setTheme(theme, force) called on the instance
SetTheme(theme, force) ==
  /\ use.state = "ready"
  /\ ops < MaxOps
  /\ LET t == runThemeMicrotasks(setThemeInternal([u |-> use, h |-> hl], theme, force))
     IN /\ use' = t.u
        /\ hl' = t.h
  /\ ops' = ops + 1
  /\ UNCHANGED <<ids, rafQueue, nextId, frame, timers, nextTimerId, ed, diff, cfg,
                 edit, hist>>

RegisterMonacoThemes(themes, languages) ==
  /\ ops < MaxOps
  /\ hl' = [runMicrotasks(registerMonacoThemes(hl, themes, languages))
             EXCEPT !.log = Append(@, [op |-> "register", themes |-> themes,
                                       languages |-> languages])]
  /\ ops' = ops + 1
  /\ UNCHANGED <<ids, rafQueue, nextId, frame, timers, nextTimerId, ed, diff, cfg, use,
                 edit, hist>>

SettleHighlighter(i, ok) ==
  /\ i \in DOMAIN hl.made
  /\ hl.made[i].state = "pending"
  /\ LET t == runThemeMicrotasks([u |-> use, h |-> settle(hl, i, ok)])
     IN /\ hl' = t.h
        /\ use' = t.u
  /\ UNCHANGED <<ids, rafQueue, nextId, frame, timers, nextTimerId, ed, diff, cfg,
                 edit, ops, hist>>

ClearHighlighterCache ==
  /\ ops < MaxOps
  /\ hl' = [clearHighlighterCache(hl) EXCEPT !.log = Append(@, [op |-> "clear"])]
  /\ ops' = ops + 1
  /\ UNCHANGED <<ids, rafQueue, nextId, frame, timers, nextTimerId, ed, diff, cfg, use,
                 edit, hist>>

(***************************************************************************)
(* computeMinimalEdit evaluated on its own, and its result applied to a    *)
(* buffer holding prev the way applyMinimalEdit does.                      *)
(***************************************************************************)
Strings == UNION {[1..n -> Chars] : n \in 0..MaxLen}

NoEdit ==
  [stage |-> "none", prev |-> <<>>, next |-> <<>>, res |-> None, buffer |-> <<>>]

ComputeMinimalEdit ==
  /\ edit.stage = "input"
  /\ edit' = [edit EXCEPT !.stage = "computed",
                          !.res = computeMinimalEdit(edit.prev, edit.next)]
  /\ UNCHANGED <<ids, rafQueue, nextId, frame, timers, nextTimerId, ed, diff, cfg, use,
                 hl, ops, hist>>

\* an editor whose buffer holds the text prev
BufferHolding(w, m, prev) ==
  [w EXCEPT !.ed[m].editorView = TRUE, !.ed[m].value = prev]

ApplyMinimalEdit ==
  /\ edit.stage = "computed"
  /\ edit' = [edit EXCEPT
                !.stage = "applied",
                !.buffer = applyMinimalEdit(BufferHolding(World, 1, edit.prev), 1,
                                            edit.prev, edit.next).ed[1].value]
  /\ UNCHANGED <<ids, rafQueue, nextId, frame, timers, nextTimerId, ed, diff, cfg, use,
                 hl, ops, hist>>


Configs ==
  [autoScrollOnUpdate : {TRUE}, autoScrollInitial : {TRUE},
   diffAutoScroll : {TRUE}, revealBatchOnIdleMs : {0, 1},
   autoScrollThresholdPx : {3}, autoScrollThresholdLines : {1}]

Init ==
  /\ ids = [k \in Kinds |-> 0]
  /\ rafQueue = <<>>
  /\ nextId = 1
  /\ frame = <<>>
  /\ timers = {}
  /\ nextTimerId = 1
  /\ ed = [m \in Mgrs |-> NewEditorManager]
  /\ diff = NewDiffEditorManager
  /\ cfg \in Configs
  /\ use = NewUseMonaco
  /\ hl = NewHighlighterCache
  /\ edit = NoEdit
  /\ ops = 0
  /\ hist = InitHist

\* an API call: the caller's turn, between frames; u is the instance afterwards
ApiUse(w, h, u) ==
  /\ frame = <<>>
  /\ ops < MaxOps
  /\ Commit(w, frame)
  /\ ops' = ops + 1
  /\ hist' = h
  /\ use' = u
  /\ UNCHANGED <<cfg, hl, edit>>

Api(w, h) == ApiUse(w, h, use)

CreateEditor(m, code, language) ==
  Api(createEditor(World, m, code, language),
      HistCall("createEditor", m, code, <<>>, Some(language)))

UpdateCode(m, newCode, codeLanguage) ==
  Api(updateCode(World, m, newCode, codeLanguage),
      HistCall("updateCode", m, newCode, <<>>, Some(codeLanguage)))

AppendCode(m, appendText, codeLanguage) ==
  Api(appendCode(World, m, appendText, codeLanguage),
      HistCall("appendCode", m, appendText, <<>>, codeLanguage))

Cleanup(m) ==
  Api(cleanup(World, m), HistCall("cleanup", m, <<>>, <<>>, None))

SafeClean(m) ==
  Api(safeClean(World, m), HistCall("safeClean", m, <<>>, <<>>, None))

\* the browser begins a frame: the callbacks pending now are the ones it runs
Tick ==
  /\ frame = <<>>
  /\ rafQueue # <<>>
  /\ frame' = [i \in 1..Len(rafQueue) |-> rafQueue[i].id]
  /\ hist' = [hist EXCEPT !.ticks = Min(@ + 1, 2),
                          !.due = {hist.slot[k] : k \in RafKinds} \ {0},
                          !.call = IF @.kind # "" THEN NoCall ELSE @]
  /\ UNCHANGED <<ids, rafQueue, nextId, timers, nextTimerId, ed, diff, cfg, use, hl, edit, ops>>

\* what the history records of the frame callback en, which left world w1
\* the flush en changed the line count of its manager, which had a live
\* editor and was Following with autoScrollOnUpdate
FlushGrew(en, w1) ==
  /\ en.cb.fn \in {"flushPendingUpdate", "flushAppendBuffer"}
  /\ ed[en.cb.mgr].editorView
  /\ cfg.autoScrollOnUpdate
  /\ ed[en.cb.mgr].shouldAutoScroll
  /\ getLineCount(w1.ed[en.cb.mgr].value) # getLineCount(ed[en.cb.mgr].value)

\* the callback en carried out the reveal of the line recorded in grown
RevealedGrown(en, w1) ==
  /\ hist.grown = Some(<<en.cb.mgr, en.cb.arg>>)
  /\ \/ en.cb.fn = "reveal" /\ w1.ed[en.cb.mgr].editorView
     \/ en.cb.fn = "revealDiff" /\ w1.diff.diffEditorView

\* the step to world w1 gave the modified buffer more lines while the dual
\* manager had a live view and was Following with autoScrollOnUpdate and
\* diffAutoScroll
GrewModified(w1) ==
  /\ diff.diffEditorView
  /\ cfg.autoScrollOnUpdate /\ cfg.diffAutoScroll
  /\ diff.shouldAutoScrollDiff
  /\ getLineCount(w1.diff.modifiedValue) > getLineCount(diff.modifiedValue)

\* the history h of a call of the dual manager that left world w1
HistGrew(h, w1) ==
  [h EXCEPT !.grown = IF GrewModified(w1)
                      THEN Some(<<DiffMgr, getLineCount(w1.diff.modifiedValue)>>)
                      ELSE @]

HistRan(en, w1) ==
  LET mine == en.cb.fn = "flushPendingUpdate" /\ en.cb.mgr = hist.call.mgr
      armed == {t \in w1.timers : t \notin timers}
      passed == en.cb.fn = "maybeScroll" /\ armed # {}
      revealed == en.cb.fn = "reveal" /\ w1.ed[en.cb.mgr].editorView
                  /\ hist.passes > 0
  IN [hist EXCEPT
        !.passes = IF passed THEN (IF hist.expired THEN 1 ELSE Min(@ + 1, 2)) ELSE @,
        !.passMgr = IF passed THEN en.cb.mgr ELSE @,
        !.passLine = IF passed THEN (CHOOSE t \in armed : TRUE).cb.arg ELSE @,
        !.expired = IF passed THEN FALSE ELSE @,
        !.reveals = IF passed THEN 0
                    ELSE IF revealed THEN Min(@ + 1, 2) ELSE @,
        !.call = IF @.kind # "" THEN NoCall ELSE @,
        !.flushRuns = IF mine THEN Min(@ + 1, 2) ELSE @,
        !.after = IF mine THEN Some(w1.ed[en.cb.mgr]) ELSE @,
        !.diffFlushed = @ \/ en.cb.fn = "flushPendingDiffUpdate",
        !.grown = IF FlushGrew(en, w1)
                  THEN Some(<<en.cb.mgr, getLineCount(w1.ed[en.cb.mgr].value)>>)
                  ELSE IF en.cb.fn = "flushPendingDiffUpdate" /\ GrewModified(w1)
                  THEN Some(<<DiffMgr, getLineCount(w1.diff.modifiedValue)>>)
                  ELSE IF RevealedGrown(en, w1) THEN None ELSE @,
        !.followed = IF FlushGrew(en, w1) THEN FALSE
                     ELSE IF en.cb.fn = "flushPendingDiffUpdate" /\ GrewModified(w1)
                     THEN FALSE
                     ELSE IF RevealedGrown(en, w1) THEN TRUE ELSE @,
        !.checks = IF en.cb.fn = "maybeResume" /\ en.cb.mgr = hist.call.mgr
                   THEN Min(@ + 1, 2) ELSE @,
        !.ran = IF en.cb.fn = "cb"
                THEN [@ EXCEPT ![en.cb.arg] = Min(@ + 1, 2)]
                ELSE @,
        !.slot = IF en.cb.fn = "cb"
                 THEN [k \in RafKinds |-> IF @[k] = en.cb.arg THEN 0 ELSE @[k]]
                 ELSE @]

RunEntry(en, w1) ==
  /\ Commit(w1, Tail(frame))
  /\ hist' = HistRan(en, w1)

\* the browser runs the next callback of the frame, unless it was cancelled
\* the browser runs the next callback of the frame; SB holds the answers a
\* scrollbar measurement made by the callback can give
RunFrameCallbackIn(SB) ==
  /\ frame # <<>>
  /\ LET h == Head(frame)
     IN IF h \notin QueuedIds(rafQueue)
        THEN /\ frame' = Tail(frame)
             /\ hist' = [hist EXCEPT !.call = IF @.kind # "" THEN NoCall ELSE @]
             /\ UNCHANGED <<ids, rafQueue, nextId, timers, nextTimerId, ed, diff>>
        ELSE LET en == Entry(rafQueue, h)
             IN \E sb \in SB :
                  RunEntry(en, RunCb([World EXCEPT !.rafQueue = RemoveId(@, h)],
                                     en.kind, en.cb, sb))
  /\ UNCHANGED <<cfg, use, hl, edit, ops>>

RunFrameCallback == RunFrameCallbackIn(BOOLEAN)

\* a timer expires, between frames
TimerFire ==
  /\ frame = <<>>
  /\ \E t \in timers :
       /\ Commit(RunTimer([World EXCEPT !.timers = @ \ {t}], t.cb), frame)
       /\ hist' = [hist EXCEPT !.expired = @ \/ (hist.passes > 0 /\ t.cb.mgr = hist.passMgr)]
  /\ UNCHANGED <<cfg, use, hl, edit, ops>>

\* the view of manager m scrolls to top within a content of the given height
\* and reports it to the scroll listener, if one is attached
scrollEvent(w, m, top, height) ==
  LET w1 == [w EXCEPT !.ed[m].scrollTop = top, !.ed[m].scrollHeight = height]
  IN IF w.ed[m].scrollWatcher THEN onDidScrollChange(w1, m, top) ELSE w1

Scroll(m, top, height) ==
  /\ ed[m].editorView
  /\ top + ViewportHeight <= height
  /\ <<top, height>> # <<ed[m].scrollTop, ed[m].scrollHeight>>
  /\ Api(scrollEvent(World, m, top, height), HistCall("scroll", m, <<>>, <<>>, None))

\* the scroll listener and, when the height changed, the content size
\* listener of the modified view, in the order the view runs them
notifyModified(w, top, resized, sizeFirst) ==
  LET scrolled(x) == IF w.diff.diffScrollWatcher THEN onDidScrollChangeDiff(x, top)
                     ELSE x
      sized(x) == IF resized THEN onDidContentSizeChange(x, "modified") ELSE x
  IN IF sizeFirst THEN scrolled(sized(w)) ELSE sized(scrolled(w))

\* the modified view scrolls to top within a content of the given height
scrollEventDiff(w, top, height, sizeFirst) ==
  notifyModified([w EXCEPT !.diff.scrollTop = top,
                           !.diff.scrollHeightModified = height],
                 top, height # w.diff.scrollHeightModified, sizeFirst)

ScrollDiff(top, height, sizeFirst) ==
  /\ diff.diffEditorView
  /\ top + ViewportHeight <= height
  /\ <<top, height>> # <<diff.scrollTop, diff.scrollHeightModified>>
  /\ Api(scrollEventDiff(World, top, height, sizeFirst),
         HistCall("scrollDiff", DiffMgr, <<>>, <<>>, None))

\* the original view's content takes the given height
resizeOriginal(w, height) ==
  onDidContentSizeChange([w EXCEPT !.diff.scrollHeightOriginal = height], "original")

\* the view of manager m reports a change of its content size
ContentSizeChange(m) ==
  /\ ed[m].editorView
  /\ Api(onDidContentSizeChangeEditor(World, m),
         HistCall("contentSize", m, <<>>, <<>>, None))

ResizeOriginal(height) ==
  /\ diff.diffEditorView
  /\ height # diff.scrollHeightOriginal
  /\ Api(resizeOriginal(World, height),
         HistCall("resizeOriginal", DiffMgr, <<>>, <<>>, None))

\* useMonaco.cleanupEditor of the instance that owns manager m: the manager's
\* cleanup, then the instance's own cancels on the scheduler
cleanupEditor(w, m) ==
  cancel(cancel(cleanup(w, m), "update"), "append")

CleanupEditor(m) ==
  Api(cleanupEditor(World, m), HistCall("cleanupEditor", m, <<>>, <<>>, None))

(***************************************************************************)
(* useMonaco: creation suspended at its await, and cleanupEditor            *)
(***************************************************************************)
\* cleanupEditor of the instance: its managers' cleanup, then its own cancels
useCleanupEditor(w) ==
  LET w1 == IF use.editorMgr # 0 THEN cleanup(w, use.editorMgr) ELSE w
      w2 == IF use.diffMgr THEN cleanupDiff(w1) ELSE w1
  IN cancel(cancel(w2, "update"), "append")

\* createEditor / createDiffEditor up to the await on the theme registration
UseCreate(fn, code, language) ==
  /\ use.awaiting = None
  /\ ApiUse(useCleanupEditor(World), HistCall(fn, 0, code, <<>>, Some(language)),
            [use EXCEPT !.editorMgr = 0, !.diffMgr = FALSE,
                        !.awaiting = Some([fn |-> fn, code |-> code,
                                           lang |-> language])])

UseCleanupEditor ==
  ApiUse(useCleanupEditor(World), HistCall("cleanupEditor", 0, <<>>, <<>>, None),
         [use EXCEPT !.editorMgr = 0, !.diffMgr = FALSE])

\* a manager object no callback or timer refers to stands for a new one
Fresh(m) ==
  /\ \A i \in 1..Len(rafQueue) : rafQueue[i].cb.mgr # m
  /\ \A t \in timers : t.cb.mgr # m

\* the await of createEditor completes: new EditorManager, then its createEditor
ResumeCreateEditor ==
  /\ frame = <<>>
  /\ IsSome(use.awaiting)
  /\ Get(use.awaiting).fn = "createEditor"
  /\ \E m \in Mgrs :
       /\ Fresh(m) /\ ~ed[m].editorView
       /\ \A n \in Mgrs : (Fresh(n) /\ ~ed[n].editorView) => m <= n
       /\ Commit(createEditor([World EXCEPT !.ed[m] = NewEditorManager], m,
                              Get(use.awaiting).code, Get(use.awaiting).lang), frame)
       /\ use' = [use EXCEPT !.awaiting = None, !.editorMgr = m]
  /\ UNCHANGED <<cfg, hl, edit, ops, hist>>

\* the await of createDiffEditor completes: new DiffEditorManager, then its
\* createDiffEditor
ResumeCreateDiffEditor ==
  /\ frame = <<>>
  /\ IsSome(use.awaiting)
  /\ Get(use.awaiting).fn = "createDiffEditor"
  /\ Fresh(DiffMgr) /\ ~diff.diffEditorView
  /\ \E sb \in BOOLEAN :
       Commit(createDiffEditor([World EXCEPT !.diff = NewDiffEditorManager],
                               Get(use.awaiting).code, Get(use.awaiting).code,
                               Get(use.awaiting).lang, sb), frame)
  /\ use' = [use EXCEPT !.awaiting = None, !.diffMgr = TRUE]
  /\ UNCHANGED <<cfg, hl, edit, ops, hist>>

CreateDiffEditor(originalCode, modifiedCode, language, sb) ==
  Api(createDiffEditor(World, originalCode, modifiedCode, language, sb),
      HistCall("createDiffEditor", DiffMgr, originalCode, modifiedCode, Some(language)))

UpdateDiff(originalCode, modifiedCode, codeLanguage, sb) ==
  LET w1 == updateDiff(World, originalCode, modifiedCode, codeLanguage, sb)
  IN Api(w1, HistGrew(HistCall("updateDiff", DiffMgr, originalCode, modifiedCode,
                               codeLanguage), w1))

AppendOriginal(appendText, codeLanguage) ==
  Api(appendOriginal(World, appendText, codeLanguage),
      HistCall("appendOriginal", DiffMgr, appendText, <<>>, codeLanguage))

AppendModified(appendText, codeLanguage) ==
  Api(appendModified(World, appendText, codeLanguage),
      HistCall("appendModified", DiffMgr, appendText, <<>>, codeLanguage))

UpdateOriginal(newCode, codeLanguage) ==
  Api(updateOriginal(World, newCode, codeLanguage),
      HistCall("updateOriginal", DiffMgr, newCode, <<>>, codeLanguage))

UpdateModified(newCode, codeLanguage, sb) ==
  LET w1 == updateModified(World, newCode, codeLanguage, sb)
  IN Api(w1, HistGrew(HistCall("updateModified", DiffMgr, <<>>, newCode,
                               codeLanguage), w1))

\* the call's record keeps the allowed languages in the place of the text
SetLanguage(m, language, languages) ==
  Api(setLanguage(World, m, language, languages),
      HistCall("setLanguage", m, languages, <<>>, Some(language)))

SetLanguageDiff(language, languages) ==
  Api(setLanguageDiff(World, language, languages),
      HistCall("setLanguage", DiffMgr, languages, <<>>, Some(language)))

CleanupDiff ==
  Api(cleanupDiff(World), HistCall("cleanupDiff", DiffMgr, <<>>, <<>>, None))

SafeCleanDiff ==
  Api(safeCleanDiff(World), HistCall("safeCleanDiff", DiffMgr, <<>>, <<>>, None))

\* the bare scheduler driven with opaque callbacks, numbered in call order
ScheduleCb(kind) ==
  /\ hist.issued < MaxCb
  /\ LET t == hist.issued + 1
         old == hist.slot[kind]
     IN /\ Commit(schedule(World, kind, Callback(DiffMgr, "cb", t)), frame)
        /\ hist' = [hist EXCEPT
                      !.issued = t,
                      !.slot[kind] = t,
                      !.superseded = IF old # 0 THEN @ \cup {<<old, t>>} ELSE @,
                      !.call = [NoCall EXCEPT !.op = "schedule", !.kind = kind]]
  /\ UNCHANGED <<cfg, use, hl, edit, ops>>

CancelKind(kind) ==
  /\ Commit(cancel(World, kind), frame)
  /\ hist' = [hist EXCEPT
                !.slot[kind] = 0,
                !.cancelled = IF hist.slot[kind] # 0
                              THEN @ \cup {hist.slot[kind]} ELSE @,
                !.call = [NoCall EXCEPT !.op = "cancel", !.kind = kind]]
  /\ UNCHANGED <<cfg, use, hl, edit, ops>>

UpdateArgs ==
  {[code |-> t, lang |-> "js"] : t \in UpdateTexts}
    \cup {[code |-> <<"a", NL>>, lang |-> "sh"]}

AppendArgs ==
  {[text |-> t, lang |-> None] : t \in AppendTexts}
    \cup {[text |-> <<NL>>, lang |-> Some("sh")]}

NextEditor(M) ==
  \/ \E m \in M, code \in CreateTexts, l \in CreateLangs : CreateEditor(m, code, l)
  \/ \E m \in M, u \in UpdateArgs : UpdateCode(m, u.code, u.lang)
  \/ \E m \in M, a \in AppendArgs : AppendCode(m, a.text, a.lang)
  \/ \E m \in M : Cleanup(m)
  \/ \E m \in M : SafeClean(m)
  \/ Tick
  \/ RunFrameCallback
  \/ TimerFire

\* one EditorManager on the page
Next == NextEditor({1})

Spec == Init /\ [][Next]_vars

\* two useMonaco instances on the page, each with its EditorManager
NextCross ==
  \/ \E m \in Mgrs : CreateEditor(m, <<"a">>, "js")
  \/ \E m \in Mgrs : UpdateCode(m, <<"a", NL>>, "js")
  \/ \E m \in Mgrs : AppendCode(m, <<"a">>, None)
  \/ \E m \in Mgrs : Cleanup(m)
  \/ \E m \in Mgrs : SafeClean(m)
  \/ \E m \in Mgrs : CleanupEditor(m)
  \/ Tick
  \/ RunFrameCallback
  \/ TimerFire

SpecCross == Init /\ [][NextCross]_vars

\* the DiffEditorManager
DiffCreateTexts == {<<>>, <<"a">>}
DiffUpdateTexts == {<<"a", "a">>, <<NL>>}
DiffAppendTexts == {<<>>, <<"a">>, <<NL>>}
DiffLangs == {None, Some("sh")}

NextDiff ==
  \/ \E t \in DiffCreateTexts, sb \in BOOLEAN : CreateDiffEditor(t, t, "js", sb)
  \/ \E o \in DiffUpdateTexts, m \in DiffUpdateTexts, l \in DiffLangs, sb \in BOOLEAN :
        UpdateDiff(o, m, l, sb)
  \/ \E t \in DiffAppendTexts : AppendOriginal(t, None)
  \/ \E t \in DiffAppendTexts : AppendModified(t, None)
  \/ CleanupDiff
  \/ SafeCleanDiff
  \/ Tick
  \/ RunFrameCallback
  \/ TimerFire

SpecDiff == Init /\ [][NextDiff]_vars

\* the scheduler on its own
NextRaf ==
  \/ \E k \in RafKinds : ScheduleCb(k)
  \/ \E k \in RafKinds : CancelKind(k)
  \/ Tick
  \/ RunFrameCallback

SpecRaf == Init /\ [][NextRaf]_vars

\* an EditorManager and a DiffEditorManager whose views are scrolled, under
\* every follower option
ScrollConfigs ==
  [autoScrollOnUpdate : {TRUE}, autoScrollInitial : BOOLEAN,
   diffAutoScroll : {TRUE}, revealBatchOnIdleMs : {0},
   autoScrollThresholdPx : {0, 3}, autoScrollThresholdLines : {0, 1}]

InitWith(C) ==
  /\ ids = [k \in Kinds |-> 0]
  /\ rafQueue = <<>>
  /\ nextId = 1
  /\ frame = <<>>
  /\ timers = {}
  /\ nextTimerId = 1
  /\ ed = [m \in Mgrs |-> NewEditorManager]
  /\ diff = NewDiffEditorManager
  /\ cfg \in C
  /\ use = NewUseMonaco
  /\ hl = NewHighlighterCache
  /\ edit = NoEdit
  /\ ops = 0
  /\ hist = InitHist

InitScroll == InitWith(ScrollConfigs)

ScrollCreateTexts == {<<"a", NL, "a">>, <<"a", NL, "a", NL, "a">>}

NextScroll ==
  \/ \E code \in CreateTexts : CreateEditor(1, code, "js")
  \/ \E top \in ScrollTops, height \in ScrollHeights : Scroll(1, top, height)
  \/ Cleanup(1)
  \/ SafeClean(1)
  \/ \E t \in ScrollCreateTexts, sb \in BOOLEAN : CreateDiffEditor(t, t, "js", sb)
  \/ \E top \in ScrollTops, height \in ScrollHeights, sizeFirst \in BOOLEAN :
        ScrollDiff(top, height, sizeFirst)
  \/ \E height \in ScrollHeights : ResizeOriginal(height)
  \/ CleanupDiff
  \/ SafeCleanDiff
  \/ Tick
  \/ RunFrameCallback
  \/ TimerFire

SpecScroll == InitScroll /\ [][NextScroll]_vars

\* one useMonaco instance whose creations suspend at their await
NextUse ==
  \/ \E code \in CreateTexts : UseCreate("createEditor", code, "js")
  \/ \E code \in CreateTexts : UseCreate("createDiffEditor", code, "js")
  \/ ResumeCreateEditor
  \/ ResumeCreateDiffEditor
  \/ UseCleanupEditor
  \/ Tick
  \/ RunFrameCallback
  \/ TimerFire

SpecUse == Init /\ [][NextUse]_vars

\* both managers revealing appended lines, under every auto-scroll option
RevealConfigs ==
  [autoScrollOnUpdate : BOOLEAN, autoScrollInitial : BOOLEAN,
   diffAutoScroll : BOOLEAN, revealBatchOnIdleMs : {0, 1},
   autoScrollThresholdPx : {3}, autoScrollThresholdLines : {1}]

NextReveal ==
  \/ \E code \in CreateTexts : CreateEditor(1, code, "js")
  \/ AppendCode(1, <<NL>>, None)
  \/ \E t \in ScrollCreateTexts, sb \in BOOLEAN : CreateDiffEditor(t, t, "js", sb)
  \/ AppendModified(<<NL>>, None)
  \/ Tick
  \/ RunFrameCallback
  \/ TimerFire

InitReveal == InitWith(RevealConfigs)

SpecReveal == InitReveal /\ [][NextReveal]_vars

\* the highlighter cache on its own
NextHighlighter ==
  \/ \E themes \in ThemeLists, languages \in LangLists :
        GetOrCreateHighlighter(themes, languages)
  \/ \E i \in 1..MaxOps, ok \in BOOLEAN : SettleHighlighter(i, ok)
  \/ ClearHighlighterCache

SpecHighlighter == Init /\ [][NextHighlighter]_vars

\* the languages of the buffers: both managers with their language-changing calls
AllowedLists == {<<"js">>, <<"js", "shell">>}
SetLanguages == {"js", "shell"}

NextLang ==
  \/ CreateEditor(1, <<"a">>, "js")
  \/ \E l \in SetLanguages, ls \in AllowedLists : SetLanguage(1, l, ls)
  \/ \E sb \in BOOLEAN : CreateDiffEditor(<<"a">>, <<"a">>, "js", sb)
  \/ \E l \in SetLanguages, ls \in AllowedLists : SetLanguageDiff(l, ls)
  \/ \E c \in DiffUpdateTexts, l \in DiffLangs : UpdateOriginal(c, l)
  \/ \E c \in DiffUpdateTexts, l \in DiffLangs, sb \in BOOLEAN : UpdateModified(c, l, sb)
  \/ \E o \in DiffUpdateTexts, m \in DiffUpdateTexts, l \in {Some("sh"), Some("js")},
        sb \in BOOLEAN : UpdateDiff(o, m, l, sb)
  \/ Tick
  \/ RunFrameCallback
  \/ TimerFire

SpecLang == Init /\ [][NextLang]_vars

\* computeMinimalEdit on every pair of texts up to MaxLen characters
InitEdit ==
  /\ ids = [k \in Kinds |-> 0]
  /\ rafQueue = <<>>
  /\ nextId = 1
  /\ frame = <<>>
  /\ timers = {}
  /\ nextTimerId = 1
  /\ ed = [m \in Mgrs |-> NewEditorManager]
  /\ diff = NewDiffEditorManager
  /\ cfg \in Configs
  /\ use = NewUseMonaco
  /\ hl = NewHighlighterCache
  /\ edit \in {[NoEdit EXCEPT !.stage = "input", !.prev = p, !.next = n] :
                  p \in Strings, n \in Strings}
  /\ ops = 0
  /\ hist = InitHist

NextEdit ==
  \/ ComputeMinimalEdit
  \/ ApplyMinimalEdit

SpecEdit == InitEdit /\ [][NextEdit]_vars

\* registration of themes and languages over the highlighter cache
NextRegister ==
  \/ \E themes \in ThemeLists, languages \in LangLists :
        RegisterMonacoThemes(themes, languages)
  \/ \E i \in 1..MaxOps, ok \in BOOLEAN : SettleHighlighter(i, ok)
  \/ ClearHighlighterCache

SpecRegister == Init /\ [][NextRegister]_vars

\* setTheme calls of one instance over the highlighter cache
MaxMade == 2 * MaxOps

NextTheme ==
  \/ \E theme \in ThemeNames, force \in BOOLEAN : SetTheme(theme, force)
  \/ \E i \in 1..MaxMade, ok \in BOOLEAN : SettleHighlighter(i, ok)
  \/ ClearHighlighterCache

SpecTheme == Init /\ [][NextTheme]_vars

\* one manager whose view has a vertical scrollbar whenever it is measured,
\* the browser running every frame it owes and firing every timer
FollowConfigs ==
  [autoScrollOnUpdate : {TRUE}, autoScrollInitial : BOOLEAN,
   diffAutoScroll : {TRUE}, revealBatchOnIdleMs : {0, 1},
   autoScrollThresholdPx : {3}, autoScrollThresholdLines : {1}]

InitFollow == InitWith(FollowConfigs)

NextFollow ==
  \/ \E code \in CreateTexts : CreateEditor(1, code, "js")
  \/ \E u \in UpdateArgs : UpdateCode(1, u.code, u.lang)
  \/ \E a \in AppendArgs : AppendCode(1, a.text, a.lang)
  \/ Tick
  \/ RunFrameCallbackIn({TRUE})
  \/ TimerFire

\* the browser begins the frame it owes and fires every timer armed; a frame
\* begun is run to its end: RunFrameCallback is enabled exactly while frame
\* is not empty and is the only action that shortens it, so weak fairness of
\* it is []<>(frame = <<>>)
SpecFollow ==
  /\ InitFollow
  /\ [][NextFollow]_vars
  /\ WF_vars(Tick)
  /\ WF_vars(TimerFire)
  /\ []<>(frame = <<>>)

\* the dual manager alone, its modified view having a vertical scrollbar
\* whenever it is measured, under the same scheduling
NextFollowDiff ==
  \/ \E t \in DiffCreateTexts : CreateDiffEditor(t, t, "js", TRUE)
  \/ \E o \in DiffUpdateTexts, m \in DiffUpdateTexts, l \in DiffLangs :
        UpdateDiff(o, m, l, TRUE)
  \/ \E c \in DiffUpdateTexts : UpdateModified(c, None, TRUE)
  \/ Tick
  \/ RunFrameCallbackIn({TRUE})
  \/ TimerFire

SpecFollowDiff ==
  /\ InitFollow
  /\ [][NextFollowDiff]_vars
  /\ WF_vars(Tick)
  /\ WF_vars(TimerFire)
  /\ []<>(frame = <<>>)

\* one manager whose content grows, with the content-size events of its view
NextMetrics ==
  \/ \E code \in CreateTexts : CreateEditor(1, code, "js")
  \/ AppendCode(1, <<NL>>, None)
  \/ ContentSizeChange(1)
  \/ Tick
  \/ RunFrameCallback
  \/ TimerFire

SpecMetrics == Init /\ [][NextMetrics]_vars

\* useMonaco called with a themes option, and the setTheme calls the instance
\* it returned allows
InitConstruct ==
  /\ ids = [k \in Kinds |-> 0]
  /\ rafQueue = <<>>
  /\ nextId = 1
  /\ frame = <<>>
  /\ timers = {}
  /\ nextTimerId = 1
  /\ ed = [m \in Mgrs |-> NewEditorManager]
  /\ diff = NewDiffEditorManager
  /\ cfg \in Configs
  /\ use = [NewUseMonaco EXCEPT !.state = "unbuilt", !.themes = <<>>]
  /\ hl = NewHighlighterCache
  /\ edit = NoEdit
  /\ ops = 0
  /\ hist = InitHist

NextConstruct ==
  \/ \E option \in ThemeOptions : UseMonaco(option)
  \/ \E theme \in ThemeNames, force \in BOOLEAN : SetTheme(theme, force)
  \/ \E i \in 1..MaxMade, ok \in BOOLEAN : SettleHighlighter(i, ok)
  \/ ClearHighlighterCache

SpecConstruct == InitConstruct /\ [][NextConstruct]_vars

(***************************************************************************)
(* Properties                                                              *)
(***************************************************************************)
\* the frame request the slot of kind k points to
SlotEntry(k) == Entry(rafQueue, ids[k])

\* the queue without the requests of kind k
OtherKinds(q, k) == SelectSeq(q, LAMBDA en : en.kind # k)

\* C9 (SpecRaf): frame scheduler coalescing. A callback replaced by a later
\* schedule of the same kind before it fired never runs; no callback runs
\* twice; when a frame is over, every callback that was pending as the frame
\* began has run exactly once unless it was replaced or cancelled meanwhile;
\* and a slot is occupied only by a frame request that has not fired yet, so
\* after a callback fired its slot is empty.
C9_Coalescing ==
  /\ \A p \in hist.superseded : hist.ran[p[1]] = 0
  /\ \A t \in DOMAIN hist.ran : hist.ran[t] <= 1
  /\ frame = <<>> =>
       \A t \in hist.due :
          \/ hist.ran[t] = 1
          \/ t \in hist.cancelled
          \/ \E p \in hist.superseded : p[1] = t
  /\ \A k \in RafKinds :
       /\ (ids[k] = 0) <=> (hist.slot[k] = 0)
       /\ ids[k] # 0 =>
            /\ ids[k] \in QueuedIds(rafQueue)
            /\ SlotEntry(k).cb.arg = hist.slot[k]
            /\ hist.ran[hist.slot[k]] = 0

\* cb1 was replaced by cb2 before the frame; the frame is over, cb2 has run
\* once, cb1 has not, and the slot is empty again
C9_Witness ==
  /\ frame = <<>>
  /\ \E p \in hist.superseded :
       /\ hist.ran[p[1]] = 0
       /\ hist.ran[p[2]] = 1
       /\ p[2] \in hist.due
  /\ \E k \in RafKinds : ids[k] = 0 /\ hist.slot[k] = 0

\* a step that is a call of cancel(kind)
C10_CancelStep ==
  hist'.call.op = "cancel" =>
    LET k == hist'.call.kind
    IN /\ ids'[k] = 0
       /\ \A j \in Kinds \ {k} : ids'[j] = ids[j]
       /\ OtherKinds(rafQueue', k) = OtherKinds(rafQueue, k)
       /\ ids[k] = 0 => (ids' = ids /\ rafQueue' = rafQueue)
       /\ frame' = frame

\* C10 (SpecRaf): frame scheduler cancel. A callback cancelled while pending
\* never runs; cancel for a kind with nothing pending leaves the slots and
\* the frame requests as they were; and a cancel of one kind leaves the slots
\* and the frame requests of every other kind as they were.
C10_Cancel ==
  /\ [](\A t \in hist.cancelled : hist.ran[t] = 0)
  /\ [][C10_CancelStep]_vars

\* a pending callback was cancelled, frames have passed, a callback that was
\* not cancelled has run and the cancelled one has not
C10_Witness ==
  /\ frame = <<>>
  /\ rafQueue = <<>>
  /\ \E t \in hist.cancelled : hist.ran[t] = 0
  /\ \E u \in DOMAIN hist.ran : u \notin hist.cancelled /\ hist.ran[u] = 1

\* the language the most recent call asked for, as the buffer will carry it
CallLanguage == processedLanguage(Get(hist.call.lang))

\* the most recent call was updateCode(P \o s, lang) with s non-empty on a
\* live editor holding P in language lang, with nothing scheduled
PureAppendCall ==
  /\ hist.call.op = "updateCode"
  /\ hist.quiet
  /\ hist.pre.editorView
  /\ hist.pre.lastKnownCode = Some(hist.pre.value)
  /\ hist.pre.languageId = CallLanguage
  /\ StartsWith(hist.call.code, hist.pre.value)
  /\ Len(hist.pre.value) < Len(hist.call.code)

\* C1 (Spec): pure-append update. After updateCode(P \o s, lang) on a buffer
\* holding P in language lang, once the 'update' flush and every callback it
\* led to have run, the buffer holds P \o s, with s once.
C1_PureAppendOnce ==
  (PureAppendCall /\ hist.flushRuns >= 1 /\ Quiescent)
    => ed[hist.call.mgr].value = hist.call.code

\* the frame requests that will run the 'update' flush of manager m
UpdateRequests(m) ==
  {i \in 1..Len(rafQueue) : rafQueue[i].cb = Callback(m, "flushPendingUpdate", 0)}

\* C2 (Spec): last-write-wins. When updateCode was called several times on
\* one manager with no frame in between, then until the frame fires one
\* flush is requested and the pending payload is the last call's; the frame
\* runs that flush once; and on a live editor the flush leaves the last
\* call's code as the known content, the last call's language as the
\* buffer's language, and nothing pending.
C2_LastWriteWins ==
  (hist.call.op = "updateCode" /\ hist.burst >= 2) =>
    LET m == hist.call.mgr
    IN /\ hist.flushRuns <= 1
       /\ hist.ticks = 0 =>
            /\ ed[m].pendingUpdate =
                 Some([code |-> hist.call.code, lang |-> Get(hist.call.lang)])
            /\ Cardinality(UpdateRequests(m)) = 1
            /\ hist.flushRuns = 0
       /\ (hist.ticks >= 1 /\ frame = <<>>) => hist.flushRuns = 1
       /\ (IsSome(hist.after) /\ hist.pre.editorView) =>
            /\ Get(hist.after).lastKnownCode = Some(hist.call.code)
            /\ Get(hist.after).languageId = CallLanguage
            /\ Get(hist.after).pendingUpdate = None

\* two updateCode calls with different code were made before the frame, the
\* frame is over and the one flush it ran applied the second call's code
C2_Witness ==
  /\ hist.call.op = "updateCode"
  /\ hist.burst >= 2
  /\ hist.prevCall.code # hist.call.code
  /\ hist.pre.editorView
  /\ frame = <<>>
  /\ hist.flushRuns = 1
  /\ IsSome(hist.after)
  /\ Get(hist.after).lastKnownCode = Some(hist.call.code)

\* the frame callback about to run is the 'update' flush of a live editor
\* whose known content is the buffer's content, and the pending update is not
\* a pure append
NonAppendFlush ==
  /\ frame # <<>>
  /\ Head(frame) \in QueuedIds(rafQueue)
  /\ LET cb == Entry(rafQueue, Head(frame)).cb
         e == ed[cb.mgr]
     IN /\ cb.fn = "flushPendingUpdate"
        /\ e.editorView
        /\ IsSome(e.pendingUpdate)
        /\ e.lastKnownCode = Some(e.value)
        /\ \/ e.languageId # processedLanguage(Get(e.pendingUpdate).lang)
           \/ ~(StartsWith(Get(e.pendingUpdate).code, e.value)
                /\ Len(e.value) < Len(Get(e.pendingUpdate).code))

\* C6 (Spec): non-append update. When the flushed update is not a pure
\* append and the known content equals the buffer content as the flush
\* starts, the buffer content right after the flush is newCode.
C6_NonAppendExact ==
  [][NonAppendFlush =>
       LET m == Entry(rafQueue, Head(frame)).cb.mgr
       IN ed'[m].value = Get(ed[m].pendingUpdate).code]_vars

\* an update that changes the middle of the text in the same language was
\* flushed, and the buffer holds the new code
C6_Witness ==
  /\ hist.call.op = "updateCode"
  /\ hist.quiet
  /\ hist.pre.editorView
  /\ hist.pre.lastKnownCode = Some(hist.pre.value)
  /\ hist.pre.languageId = CallLanguage
  /\ hist.pre.value # <<>>
  /\ hist.call.code # <<>>
  /\ ~StartsWith(hist.call.code, hist.pre.value)
  /\ IsSome(hist.after)
  /\ Get(hist.after).value = hist.call.code

\* C7 (Spec): updateCode changes nothing synchronously. The call leaves the
\* buffer content, the buffer language and the known content as they were;
\* it only stores the pending payload and occupies the 'update' slot with a
\* request for the manager's flush.
C7_UpdateDeferred ==
  [][(ops' = ops + 1 /\ hist'.call.op = "updateCode") =>
       LET m == hist'.call.mgr
           payload == [code |-> hist'.call.code, lang |-> Get(hist'.call.lang)]
       IN /\ ed'[m].value = ed[m].value
          /\ ed'[m].languageId = ed[m].languageId
          /\ ed'[m].lastKnownCode = ed[m].lastKnownCode
          /\ ed' = [ed EXCEPT ![m].pendingUpdate = Some(payload)]
          /\ ids'["update"] # 0
          /\ ids'["update"] \in QueuedIds(rafQueue')
          /\ Entry(rafQueue', ids'["update"]).cb = Callback(m, "flushPendingUpdate", 0)
          /\ \A k \in Kinds \ {"update"} : ids'[k] = ids[k]]_vars

\* updateCode with a text other than the buffer's was just called on a live
\* editor: the buffer is as before and the payload is pending
C7_Witness ==
  /\ hist.call.op = "updateCode"
  /\ hist.ticks = 0
  /\ hist.pre.editorView
  /\ hist.call.code # hist.pre.value
  /\ ed[hist.call.mgr].value = hist.pre.value
  /\ IsSome(ed[hist.call.mgr].pendingUpdate)
  /\ ids["update"] # 0

\* C8 (Spec): appendCode edits synchronously. On a live editor the call
\* leaves the buffer holding its content before the call followed by text.
C8_AppendSynchronous ==
  [][(ops' = ops + 1 /\ hist'.call.op = "appendCode"
        /\ ed[hist'.call.mgr].editorView) =>
       ed'[hist'.call.mgr].value = ed[hist'.call.mgr].value \o hist'.call.code]_vars

\* appendCode with a non-empty text was just called on a live editor with a
\* non-empty buffer, and no frame has fired since
C8_Witness ==
  /\ hist.call.op = "appendCode"
  /\ hist.ticks = 0
  /\ frame = <<>>
  /\ hist.pre.editorView
  /\ hist.pre.value # <<>>
  /\ hist.call.code # <<>>
  /\ ed[hist.call.mgr].value = hist.pre.value \o hist.call.code

\* C3 (SpecDiff): last-write-wins in the dual manager. After a run of
\* updateDiff calls that began with nothing scheduled, once every scheduled
\* frame and timer has fired with no other call in between, the original and
\* modified buffers hold the arguments of the most recent updateDiff call.
C3_DiffLastWriteWins ==
  (/\ hist.call.op = "updateDiff"
   /\ hist.burstQuiet
   /\ diff.diffEditorView
   /\ Quiescent)
    => /\ diff.originalValue = hist.call.code
       /\ diff.modifiedValue = hist.call.code2

\* C4 (SpecCross): managers do not interfere through scheduling. An update
\* pending for a live editor keeps its flush requested, whatever is called
\* on the other manager or on the other instance.
C4_NoCrossInterference ==
  \A m \in Mgrs :
    (ed[m].editorView /\ IsSome(ed[m].pendingUpdate)) => UpdateRequests(m) # {}

\* C5 (SpecDiff): dual manager append. After createDiffEditor("", "") and
\* then only appendModified calls, once every scheduled frame and timer has
\* fired, the modified buffer holds the appended texts in call order, each
\* once, and the original buffer is empty.
C5_AppendModifiedOnce ==
  (/\ hist.call.op = "appendModified"
   /\ IsSome(hist.acc)
   /\ diff.diffEditorView
   /\ Quiescent)
    => /\ diff.modifiedValue = Get(hist.acc)
       /\ diff.originalValue = <<>>

\* the frame requests and the timers that will run a callback of manager m
PendingFrames(m) == {i \in 1..Len(rafQueue) : rafQueue[i].cb.mgr = m}
PendingTimers(m) == {t \in timers : t.cb.mgr = m}

\* C11 (Spec): cleanup cancels all scheduled work. Right after cleanup()
\* returned, no frame request and no reveal debounce or idle-batch timer of
\* the manager is left to run, the pending update payload is empty and the
\* append buffer is empty.
C11_CleanupCancelsAll ==
  (hist.call.op = "cleanup" /\ hist.ticks = 0) =>
    LET m == hist.call.mgr
    IN /\ PendingFrames(m) = {}
       /\ PendingTimers(m) = {}
       /\ ed[m].pendingUpdate = None
       /\ ed[m].appendBuffer = <<>>

\* the frame requests that will run a flush of manager m
FlushRequests(m) ==
  {i \in 1..Len(rafQueue) :
     /\ rafQueue[i].cb.mgr = m
     /\ rafQueue[i].cb.fn \in {"flushPendingUpdate", "flushAppendBuffer"}}

\* C12 (Spec): safeClean leaves no flush pending. Right after safeClean()
\* returned, no 'update' or 'append' flush of the manager is requested, no
\* update payload is pending and the append buffer is empty.
C12_SafeCleanNoFlush ==
  (hist.call.op = "safeClean" /\ hist.ticks = 0) =>
    LET m == hist.call.mgr
    IN /\ FlushRequests(m) = {}
       /\ ed[m].pendingUpdate = None
       /\ ed[m].appendBuffer = <<>>

\* C13 (SpecScroll): safeClean does not dispose the buffer. A call of
\* safeClean() leaves the editor view, its content and its language as they
\* were, sets auto-follow to the configured initial value and the recorded
\* last scroll position to 0; and so does safeClean() of the dual manager
\* for its view, both contents and both languages.
C13_SafeCleanKeepsBuffer ==
  [][/\ (ops' = ops + 1 /\ hist'.call.op = "safeClean") =>
          LET m == hist'.call.mgr
          IN /\ ed'[m].editorView = ed[m].editorView
             /\ ed'[m].value = ed[m].value
             /\ ed'[m].languageId = ed[m].languageId
             /\ ed'[m].shouldAutoScroll = cfg.autoScrollInitial
             /\ ed'[m].lastScrollTop = 0
     /\ (ops' = ops + 1 /\ hist'.call.op = "safeCleanDiff") =>
          /\ diff'.diffEditorView = diff.diffEditorView
          /\ diff'.originalValue = diff.originalValue
          /\ diff'.modifiedValue = diff.modifiedValue
          /\ diff'.originalLang = diff.originalLang
          /\ diff'.modifiedLang = diff.modifiedLang
          /\ diff'.shouldAutoScrollDiff = (cfg.autoScrollInitial /\ cfg.diffAutoScroll)
          /\ diff'.lastScrollTopDiff = 0]_vars

\* safeClean() was just called on a live editor whose follower was not in its
\* initial state and whose view was scrolled: the editor is still there with
\* its content, the follower is in its initial state and the recorded scroll
\* position is 0
C13_Witness ==
  /\ hist.call.op = "safeClean"
  /\ hist.ticks = 0
  /\ hist.pre.editorView
  /\ hist.pre.shouldAutoScroll # cfg.autoScrollInitial
  /\ hist.pre.lastScrollTop # 0
  /\ ed[hist.call.mgr].editorView
  /\ ed[hist.call.mgr].value = hist.pre.value
  /\ ed[hist.call.mgr].value # <<>>
  /\ ed[hist.call.mgr].shouldAutoScroll = cfg.autoScrollInitial
  /\ ed[hist.call.mgr].lastScrollTop = 0

\* max(thresholdPx, thresholdLines * lineHeight)
Threshold ==
  Max(cfg.autoScrollThresholdPx, cfg.autoScrollThresholdLines * LineHeight)

\* the distance to the bottom: scrollHeight - (scrollTop + viewport height)
Distance(e) == e.scrollHeight - (e.scrollTop + ViewportHeight)
DistanceDiff(d) == d.scrollHeightModified - (d.scrollTop + ViewportHeight)

\* a step in which the scroll watcher of manager m, or of the dual manager,
\* receives a scroll event
ScrollStep(m) ==
  ops' = ops + 1 /\ hist'.call.op = "scroll" /\ hist'.call.mgr = m
    /\ ed[m].scrollWatcher
ScrollDiffStep ==
  ops' = ops + 1 /\ hist'.call.op = "scrollDiff" /\ diff.diffScrollWatcher

\* C15 (SpecScroll): scrolling up pauses at once. When the scroll watcher
\* receives an event whose scrollTop is below the last recorded scrollTop,
\* auto-follow is Paused as the step ends, whatever the distance to the
\* bottom, and the last recorded scrollTop is the event's scrollTop.
C15_ScrollUpPauses ==
  [][/\ \A m \in Mgrs :
          (ScrollStep(m) /\ ed'[m].scrollTop < ed[m].lastScrollTop) =>
             /\ ~ed'[m].shouldAutoScroll
             /\ ed'[m].lastScrollTop = ed'[m].scrollTop
     /\ (ScrollDiffStep /\ diff'.scrollTop < diff.lastScrollTopDiff) =>
          /\ ~diff'.shouldAutoScrollDiff
          /\ diff'.lastScrollTopDiff = diff'.scrollTop]_vars

\* a Following editor was just scrolled up to a position still within the
\* threshold of the bottom: it is Paused and the position is recorded
C15_Witness ==
  /\ hist.call.op = "scroll"
  /\ hist.ticks = 0
  /\ hist.pre.scrollWatcher
  /\ hist.pre.shouldAutoScroll
  /\ ed[hist.call.mgr].scrollTop < hist.pre.lastScrollTop
  /\ Distance(ed[hist.call.mgr]) <= Threshold
  /\ ~ed[hist.call.mgr].shouldAutoScroll
  /\ ed[hist.call.mgr].lastScrollTop = ed[hist.call.mgr].scrollTop

\* the most recent call is a scroll event with non-negative delta received by
\* the watcher of the single manager
ScrolledDown ==
  /\ hist.call.op = "scroll"
  /\ hist.pre.scrollWatcher
  /\ ed[hist.call.mgr].scrollTop >= hist.pre.lastScrollTop

\* a step in which the watcher of the dual manager receives a scroll event
\* with non-negative delta
ScrolledDownDiffStep ==
  ScrollDiffStep /\ diff'.scrollTop >= diff.lastScrollTopDiff

\* C16 (SpecScroll): resuming near the bottom. After a scroll event with
\* non-negative delta received while the distance to the bottom is at most
\* the threshold, the follower is Following: in the single manager once the
\* resume check deferred to the next frame has run, in the dual manager as
\* the step ends.
C16_ResumeNearBottom ==
  /\ []((ScrolledDown /\ Distance(ed[hist.call.mgr]) <= Threshold
           /\ hist.checks >= 1)
          => ed[hist.call.mgr].shouldAutoScroll)
  /\ [][(ScrolledDownDiffStep /\ DistanceDiff(diff') <= Threshold)
          => diff'.shouldAutoScrollDiff]_vars

\* C17 (SpecScroll): no resuming outside the threshold. When the follower
\* is Paused and a scroll event with non-negative delta is processed while
\* the distance to the bottom exceeds the threshold, the follower is still
\* Paused afterwards.
C17_NoResumeOutsideThreshold ==
  /\ []((ScrolledDown /\ ~hist.pre.shouldAutoScroll
           /\ Distance(ed[hist.call.mgr]) > Threshold)
          => ~ed[hist.call.mgr].shouldAutoScroll)
  /\ [][(ScrolledDownDiffStep /\ ~diff.shouldAutoScrollDiff
           /\ DistanceDiff(diff') > Threshold)
          => ~diff'.shouldAutoScrollDiff]_vars

\* C14 (SpecUse): teardown during creation. When cleanupEditor() was called
\* after a createEditor or createDiffEditor call of the instance and nothing
\* was called since, the instance holds no manager and no editor view is
\* live, also once the await of that creation has completed.
C14_TeardownDuringCreation ==
  (hist.call.op = "cleanupEditor"
     /\ hist.prevCall.op \in {"createEditor", "createDiffEditor"})
    => /\ use.editorMgr = 0
       /\ ~use.diffMgr
       /\ \A m \in Mgrs : ~ed[m].editorView
       /\ ~diff.diffEditorView

\* the step arms a timer of manager m
Armed(m) == \E t \in timers' : t \notin timers /\ t.cb.mgr = m

\* the step runs the frame callback of maybeScrollToBottom of manager m
MaybeScrollStep(m) ==
  /\ frame # <<>>
  /\ Head(frame) \in QueuedIds(rafQueue)
  /\ Entry(rafQueue, Head(frame)).cb.fn = "maybeScroll"
  /\ Entry(rafQueue, Head(frame)).cb.mgr = m

\* the step requests a reveal frame
RevealRequested ==
  \E i \in 1..Len(rafQueue') :
    /\ rafQueue'[i].kind \in {"reveal", "revealDiff"}
    /\ rafQueue'[i].id \notin QueuedIds(rafQueue)

\* C18 (SpecReveal): no reveal without the three conditions. A reveal timer
\* of the single manager is armed only by the check of maybeScrollToBottom,
\* and only when at that moment autoScrollOnUpdate is set, the follower is
\* Following and the editor has a vertical scrollbar; a reveal timer of the
\* dual manager is armed only when diffAutoScroll and autoScrollOnUpdate are
\* set, the follower is Following and the modified view has a vertical
\* scrollbar; and a reveal is requested only by such a timer expiring.
C18_RevealNeedsConditions ==
  [][/\ \A m \in Mgrs :
          Armed(m) =>
            /\ MaybeScrollStep(m)
            /\ cfg.autoScrollOnUpdate
            /\ ed[m].shouldAutoScroll
            /\ ed[m].editorView
            /\ ed'[m].hasScrollBar
     /\ Armed(DiffMgr) =>
          /\ cfg.diffAutoScroll
          /\ cfg.autoScrollOnUpdate
          /\ diff'.shouldAutoScrollDiff
          /\ diff'.diffEditorView
          /\ diff'.hasScrollBar
     /\ RevealRequested => (timers' # timers /\ timers' \subseteq timers)]_vars

\* the check of maybeScrollToBottom that createEditor asked for has run on a
\* Paused editor with autoScrollOnUpdate set: no timer is armed and no frame
\* is requested
C18_Witness ==
  /\ hist.call.op = "createEditor"
  /\ hist.ticks >= 1
  /\ Quiescent
  /\ cfg.autoScrollOnUpdate
  /\ ed[hist.call.mgr].editorView
  /\ ~ed[hist.call.mgr].shouldAutoScroll
  /\ ed[hist.call.mgr].revealLine = 0

\* C19 (Spec): reveal requests are coalesced. When two or more reveal
\* requests of an EditorManager passed the check with no reveal timer
\* expiring in between, then until the timer expires exactly one timer is
\* pending, for the line of the last request, and no reveal has been
\* executed since that request; and once the timer has expired and every
\* frame has run, exactly one reveal has been executed since the last
\* request, and it went to the line of the last request.
C19_RevealCoalesced ==
  hist.passes >= 2 =>
    LET m == hist.passMgr
    IN /\ hist.reveals <= 1
       /\ ~hist.expired =>
            /\ hist.reveals = 0
            /\ Cardinality(PendingTimers(m)) = 1
            /\ \A t \in PendingTimers(m) : t.cb.arg = hist.passLine
       /\ (hist.expired /\ Quiescent) =>
            /\ hist.reveals = 1
            /\ ed[m].revealLine = hist.passLine

\* two requests passed the check before the timer expired, the timer has
\* expired, every frame has run and one reveal went to the last request's line
C19_Witness ==
  /\ hist.passes >= 2
  /\ hist.expired
  /\ Quiescent
  /\ hist.reveals = 1
  /\ hist.passLine > 1
  /\ ed[hist.passMgr].revealLine = hist.passLine

\* C20 (SpecHighlighter): one construction for equal requests. When
\* getOrCreateHighlighter is called twice in a row with the same themes and
\* languages, with no cache clear in between and the construction serving the
\* first call not failing, the second call does not invoke createHighlighter
\* and is served by the promise that served the first, whether or not that
\* promise was still pending; so the two calls invoke construction once when
\* the first found no suitable entry, and both resolve to one highlighter.
C20_OneConstruction ==
  \A j \in 1..(Len(hl.log) - 1) :
    LET a == hl.log[j]
        b == hl.log[j + 1]
    IN (/\ a.op = "get" /\ b.op = "get"
        /\ a.themes = b.themes /\ a.languages = b.languages
        /\ hl.made[a.served].state # "rejected")
         => /\ ~b.constructed
            /\ b.served = a.served

\* two calls in a row with the same arguments, the first constructing, the
\* second arriving while that construction was pending; the construction has
\* since succeeded and is the only one
C20_Witness ==
  /\ Len(hl.log) = 2
  /\ hl.log[1].op = "get" /\ hl.log[2].op = "get"
  /\ hl.log[1].themes = hl.log[2].themes
  /\ hl.log[1].languages = hl.log[2].languages
  /\ hl.log[1].constructed
  /\ hl.log[2].pending
  /\ hl.log[2].served = hl.log[1].served
  /\ Len(hl.made) = 1
  /\ hl.made[1].state = "fulfilled"

\* the keys the highlighter cache holds an entry for
CachedKeys(h) == {k \in ThemeKeys : IsSome(h.cache[k])}

\* the step is a getOrCreateHighlighter call that finds an entry for its
\* themes lacking one of the requested languages
PartialHitStep ==
  /\ Len(hl'.log) = Len(hl.log) + 1
  /\ hl'.log[Len(hl'.log)].op = "get"
  /\ LET call == hl'.log[Len(hl'.log)]
         existing == hl.cache[serializeThemes(call.themes)]
     IN /\ IsSome(existing)
        /\ \E i \in DOMAIN call.languages : call.languages[i] \notin Get(existing).languages

\* C21 (SpecHighlighter): a request for cached themes that needs a language
\* the cached entry does not cover invokes createHighlighter exactly once,
\* for the union of the entry's languages and the requested ones, and puts
\* under the same key an entry for that construction covering that union;
\* the set of cached keys does not change.
C21_PartialHitUnion ==
  [][PartialHitStep =>
       LET call == hl'.log[Len(hl'.log)]
           key == serializeThemes(call.themes)
           union == Get(hl.cache[key]).languages
                      \cup {call.languages[i] : i \in DOMAIN call.languages}
           id == Len(hl.made) + 1
       IN /\ Len(hl'.made) = id
          /\ hl'.made[id].langs = union
          /\ hl'.made[id].key = key
          /\ hl'.cache[key] = Some([id |-> id, languages |-> union])
          /\ CachedKeys(hl') = CachedKeys(hl)
          /\ Cardinality(CachedKeys(hl')) = Cardinality(CachedKeys(hl))]_vars

\* an entry for "js" alone was expanded by a request for "ts" alone: the
\* second construction covers both and its entry is the cached one
C21_Witness ==
  /\ Len(hl.log) = 2
  /\ Len(hl.made) = 2
  /\ hl.log[1].languages = <<"js">>
  /\ hl.log[2].languages = <<"ts">>
  /\ hl.log[2].constructed
  /\ hl.made[1].langs = {"js"}
  /\ hl.made[2].langs = {"js", "ts"}
  /\ hl.cache[hl.made[2].key] = Some([id |-> 2, languages |-> {"js", "ts"}])
  /\ Cardinality(CachedKeys(hl)) = 1

\* C22 (SpecHighlighter): the cache never holds an entry whose construction
\* failed: once a construction has failed, the entry under its key is an
\* earlier entry whose own construction has not failed, or there is none.
C22_NoFailedEntry ==
  \A k \in ThemeKeys :
    IsSome(hl.cache[k]) => hl.made[Get(hl.cache[k]).id].state # "rejected"

\* the step is a registerMonacoThemes call for the pair of themes and
\* languages of the last registration that completed
RegisterAgainStep ==
  /\ Len(hl'.log) = Len(hl.log) + 1
  /\ hl'.log[Len(hl'.log)].op = "register"
  /\ hl.registered = Some(<<hl'.log[Len(hl'.log)].themes,
                            hl'.log[Len(hl'.log)].languages>>)

\* C23 (SpecRegister): registration is idempotent. registerMonacoThemes called
\* with the themes and languages of the registration that last completed
\* invokes no highlighter construction, does not bind a highlighter to the
\* editor again, registers no language and leaves the highlighter cache as it
\* was; no part of the call is left waiting.
C23_RegisterIdempotent ==
  [][RegisterAgainStep =>
       /\ hl'.made = hl.made
       /\ hl'.bindings = hl.bindings
       /\ hl'.bound = hl.bound
       /\ hl'.languageRegistrations = hl.languageRegistrations
       /\ hl'.monacoLanguages = hl.monacoLanguages
       /\ hl'.cache = hl.cache
       /\ hl'.waiting = hl.waiting]_vars

\* two registrations with the same arguments, the second made after the
\* first had completed: one construction, one binding
C23_Witness ==
  /\ Len(hl.log) = 2
  /\ hl.log[1].op = "register" /\ hl.log[2].op = "register"
  /\ hl.log[1].themes = hl.log[2].themes
  /\ hl.log[1].languages = hl.log[2].languages
  /\ hl.registered = Some(<<hl.log[2].themes, hl.log[2].languages>>)
  /\ Len(hl.made) = 1
  /\ hl.bindings = 1
  /\ hl.waiting = <<>>

\* the text of a side of the dual manager
SideValue(d, side) == IF side = "original" THEN d.originalValue ELSE d.modifiedValue

\* the text the latest call asked for on a side
Requested(side) == IF side = "original" THEN hist'.call.code ELSE hist'.call.code2

\* the step is an updateDiff call on a live view with no language mismatch
UpdateDiffStep ==
  /\ ops' = ops + 1
  /\ hist'.call.op = "updateDiff"
  /\ diff.diffEditorView
  /\ ~LanguageMismatch(diff, hist'.call.lang)

\* the step runs the 'diff' frame callback
DiffFlushStep ==
  /\ frame # <<>>
  /\ Head(frame) \in QueuedIds(rafQueue)
  /\ Entry(rafQueue, Head(frame)).cb.fn = "flushPendingDiffUpdate"
  /\ frame' = Tail(frame)

\* C24 (SpecDiff): mixed paths in updateDiff. When updateDiff finds no language
\* mismatch, a side whose new text strictly extends its last-known text has
\* the remainder appended within the call, and a side whose new text does not
\* is unchanged by the call and by every later step short of another call,
\* until the 'diff' frame callback runs; right after that callback the side's
\* text is the requested one.
C24_MixedPaths ==
  [][/\ UpdateDiffStep =>
          \A s \in {"original", "modified"} :
             IF StrictlyExtends(Requested(s), KnownSide(diff, s))
             THEN SideValue(diff', s)
                    = SideValue(diff, s)
                        \o SliceFrom(Requested(s), Len(KnownSide(diff, s)))
             ELSE SideValue(diff', s) = SideValue(diff, s)
     /\ (hist.call.op = "updateDiff" /\ ~hist.diffFlushed /\ ops' = ops) =>
          \A s \in hist.deferred :
             IF DiffFlushStep
             THEN SideValue(diff', s) = Requested(s)
             ELSE SideValue(diff', s) = SideValue(diff, s)]_vars

\* C25 (SpecLang): language switch through updateDiff. Once the 'diff' flush
\* of updateDiff(o, m, lang) has run, lang being a recognized language that
\* the original or the modified model did not have when updateDiff was called,
\* and no other call having been made since, both models have language lang.
C25_DiffLanguageSwitch ==
  (hist.call.op = "updateDiff" /\ hist.mismatch /\ hist.diffFlushed) =>
     /\ diff.originalLang = processedLanguage(Get(hist.call.lang))
     /\ diff.modifiedLang = processedLanguage(Get(hist.call.lang))

\* the step is a setLanguage call naming a language that is not among the
\* allowed ones
SetLanguageRefusedStep ==
  /\ ops' = ops + 1
  /\ hist'.call.op = "setLanguage"
  /\ ~Includes(hist'.call.code, Get(hist'.call.lang))

\* C26 (SpecLang): setLanguage(language, allowed) with language not in allowed
\* changes the language of no buffer, in the single and in the dual manager;
\* the call returns having recorded one warning on the called manager and
\* done nothing else.
C26_SetLanguageRefused ==
  [][SetLanguageRefusedStep =>
       /\ \A m \in Mgrs : ed'[m].languageId = ed[m].languageId
       /\ diff'.originalLang = diff.originalLang
       /\ diff'.modifiedLang = diff.modifiedLang
       /\ IF hist'.call.mgr = DiffMgr
          THEN /\ diff' = [diff EXCEPT !.warnings = @ + 1]
               /\ ed' = ed
          ELSE /\ ed' = [ed EXCEPT ![hist'.call.mgr].warnings = @ + 1]
               /\ diff' = diff
       /\ rafQueue' = rafQueue
       /\ timers' = timers]_vars

\* setLanguage("shell", ["js"]) was called on a live editor whose buffer has
\* language "js": the buffer still has it and one warning is recorded
C26_Witness ==
  /\ hist.call.op = "setLanguage"
  /\ hist.call.mgr = 1
  /\ hist.call.lang = Some("shell")
  /\ hist.call.code = <<"js">>
  /\ ed[1].editorView
  /\ ed[1].languageId = "js"
  /\ ed[1].warnings = 1

\* C27 (SpecEdit): round trip of the minimal edit. For texts prev # next,
\* empty ones included, a buffer holding prev in which the region
\* [start, endPrevIncl] of computeMinimalEdit(prev, next) is replaced by its
\* replaceText holds exactly next.
C27_RoundTrip ==
  (edit.stage = "applied" /\ edit.prev # edit.next) => edit.buffer = edit.next

\* a change in the middle of a text with line breaks has been applied
C27_Witness ==
  /\ edit.stage = "applied"
  /\ edit.prev = <<"a", "a", "a">>
  /\ edit.next = <<"a", NL, "a">>
  /\ Get(edit.res).start = 1
  /\ Get(edit.res).endPrevIncl = 1
  /\ edit.buffer = <<"a", NL, "a">>

\* C28 (SpecEdit): computeMinimalEdit(prev, next) returns null if and only if
\* prev and next are the same text.
C28_NullIffEqual ==
  edit.stage \in {"computed", "applied"} =>
     (edit.res = None <=> edit.prev = edit.next)

\* computeMinimalEdit was evaluated on two equal non-empty texts
C28_Witness ==
  /\ edit.stage = "computed"
  /\ edit.prev = <<"a", NL>>
  /\ edit.next = edit.prev
  /\ edit.res = None

\* the length of the longest common prefix of two texts
CommonPrefix(prev, next) ==
  SetMax({k \in 0..Min(Len(prev), Len(next)) : SubSeq(prev, 1, k) = SubSeq(next, 1, k)})

\* the length of the longest common suffix of two texts that stays clear of
\* their first start characters
CommonSuffix(prev, next, start) ==
  SetMax({k \in 0..(Min(Len(prev), Len(next)) - start) :
            SubSeq(prev, Len(prev) - k + 1, Len(prev))
              = SubSeq(next, Len(next) - k + 1, Len(next))})

\* C29 (SpecEdit): for prev # next, computeMinimalEdit returns as start the
\* length of the longest common prefix, and leaves out at the end the longest
\* common suffix that does not overlap that prefix; when next is prev followed
\* by a non-empty suffix, start is the length of prev and replaceText is the
\* suffix.
C29_PrefixAndSuffix ==
  (edit.stage \in {"computed", "applied"} /\ edit.prev # edit.next) =>
     /\ IsSome(edit.res)
     /\ LET r == Get(edit.res)
            k == CommonSuffix(edit.prev, edit.next, CommonPrefix(edit.prev, edit.next))
        IN /\ r.start = CommonPrefix(edit.prev, edit.next)
           /\ r.endPrevIncl = Len(edit.prev) - 1 - k
           /\ r.endNextIncl = Len(edit.next) - 1 - k
           /\ r.replaceText = SubSeq(edit.next, r.start + 1, Len(edit.next) - k)
           /\ StrictlyExtends(edit.next, edit.prev) =>
                /\ r.start = Len(edit.prev)
                /\ r.replaceText = SliceFrom(edit.next, Len(edit.prev))

\* an append to a text of equal characters: the two texts end alike, and the
\* common suffix left out is empty because the common prefix is all of prev
C29_Witness ==
  /\ edit.stage = "computed"
  /\ edit.prev = <<"a", "a">>
  /\ edit.next = <<"a", "a", "a">>
  /\ Get(edit.res).start = 2
  /\ Get(edit.res).endPrevIncl = 1
  /\ Get(edit.res).replaceText = <<"a">>

\* next is a non-empty text followed by prev
Prepends(prev, next) ==
  /\ Len(next) > Len(prev)
  /\ SubSeq(next, Len(next) - Len(prev) + 1, Len(next)) = prev

\* C30 as stated (SpecEdit): for every text prev and every non-empty text p,
\* computeMinimalEdit(prev, p + prev) has start = 0 and replaceText = p.
C30_Prepend ==
  (edit.stage \in {"computed", "applied"} /\ Prepends(edit.prev, edit.next)) =>
     /\ IsSome(edit.res)
     /\ Get(edit.res).start = 0
     /\ Get(edit.res).replaceText = Slice(edit.next, 0, Len(edit.next) - Len(edit.prev))

\* C30 amended (SpecEdit): for every text prev and every non-empty text p such
\* that prev is empty or does not begin with the first character of p,
\* computeMinimalEdit(prev, p + prev) has start = 0 and replaceText = p.
C30_PrependDistinct ==
  (/\ edit.stage \in {"computed", "applied"}
   /\ Prepends(edit.prev, edit.next)
   /\ (edit.prev = <<>> \/ edit.prev[1] # edit.next[1])) =>
     /\ IsSome(edit.res)
     /\ Get(edit.res).start = 0
     /\ Get(edit.res).replaceText = Slice(edit.next, 0, Len(edit.next) - Len(edit.prev))

\* a line break was put in front of a text that begins with another character
C30_Witness ==
  /\ edit.stage = "computed"
  /\ edit.prev = <<"a", NL>>
  /\ edit.next = <<NL, "a", NL>>
  /\ Get(edit.res).start = 0
  /\ Get(edit.res).replaceText = <<NL>>

\* the step is a registerMonacoThemes call made with the themes of the
\* registration that last completed and a language list other than its own
RegisterNewLanguagesStep ==
  /\ Len(hl'.log) = Len(hl.log) + 1
  /\ hl'.log[Len(hl'.log)].op = "register"
  /\ hl.themesRegistered
  /\ IsSome(hl.registered)
  /\ hl'.log[Len(hl'.log)].themes = hl.currentThemes
  /\ hl'.log[Len(hl'.log)].themes = Get(hl.registered)[1]
  /\ hl'.log[Len(hl'.log)].languages # Get(hl.registered)[2]

\* the languages of a list
LanguageSet(languages) == {languages[i] : i \in DOMAIN languages}

\* C38 (SpecRegister): a change of languages is not skipped. registerMonacoThemes
\* called with the already-registered themes and a language list different
\* from the one last registered goes on to a highlighter covering the new
\* languages: within the call it either binds such a highlighter or is left
\* waiting for the promise of a construction that covers them.
C38_NewLanguagesNotSkipped ==
  [][RegisterNewLanguagesStep =>
       LET call == hl'.log[Len(hl'.log)]
       IN \/ /\ hl'.bindings = hl.bindings + 1
             /\ LanguageSet(call.languages) \subseteq hl'.made[hl'.bound].langs
             /\ hl'.registered = Some(<<call.themes, call.languages>>)
          \/ /\ Len(hl'.waiting) = Len(hl.waiting) + 1
             /\ hl'.waiting[Len(hl'.waiting)].themes = call.themes
             /\ hl'.waiting[Len(hl'.waiting)].languages = call.languages
             /\ LanguageSet(call.languages)
                  \subseteq hl'.made[hl'.waiting[Len(hl'.waiting)].promise].langs]_vars

\* the setTheme calls made for the theme that was the last applied one
RepeatedThemeCalls == {i \in DOMAIN use.themeCalls : use.themeCalls[i].same}

C39_LaterCallWins ==
  LET n == Len(use.themeCalls)
  IN (/\ n >= 2
      /\ use.themeCalls[n].overlap
      /\ ~use.themeCalls[n].warned
      /\ \A i \in 1..n : use.themeCalls[i].stage = "done")
       => /\ use.monacoTheme = Some(use.themeCalls[n].theme)
          /\ use.lastAppliedTheme = Some(use.themeCalls[n].theme)

\* the call threw and the instance has created nothing
ThrewBeforeCreating ==
  /\ use.state = "thrown"
  /\ use.themes = <<>>
  /\ use.editorMgr = 0 /\ ~use.diffMgr /\ use.awaiting = None
  /\ use.themeCalls = <<>> /\ use.setThemeCalls = 0
  /\ hl.made = <<>> /\ hl.waiting = <<>> /\ ~hl.themesRegistered

C33_LastKnownCodeTracks ==
  \A m \in Mgrs :
     (ed[m].editorView /\ rafQueue = <<>> /\ frame = <<>>)
       => ed[m].lastKnownCode = Some(ed[m].value)

\* the most recent call is a scroll event with negative delta received by
\* the watcher of the single manager
ScrolledUp ==
  /\ hist.call.op = "scroll"
  /\ hist.pre.scrollWatcher
  /\ ed[hist.call.mgr].scrollTop < hist.pre.lastScrollTop

\* C35 (SpecScroll): a scroll up is not undone by an earlier resume check.
\* From a scroll event with negative delta until the next call, the single
\* manager's follower is Paused, whichever frame callbacks run in between.
C35_PausedUntilNextScroll ==
  ScrolledUp => ~ed[hist.call.mgr].shouldAutoScroll

\* the step runs a frame callback of the function fn
FrameCallbackStep(fn) ==
  /\ frame # <<>>
  /\ Head(frame) \in QueuedIds(rafQueue)
  /\ Entry(rafQueue, Head(frame)).cb.fn = fn
  /\ frame' = Tail(frame)

\* C36 (SpecScroll): no reveal while Paused. Whenever the 'reveal' frame
\* callback of a manager with a live view runs, carrying out the reveal, the
\* manager's follower is Following; so a reveal that was armed before a
\* scroll up is not carried out after it.
C36_NoRevealWhilePaused ==
  [][/\ FrameCallbackStep("reveal") =>
          LET m == Entry(rafQueue, Head(frame)).cb.mgr
          IN ed[m].editorView => ed[m].shouldAutoScroll
     /\ FrameCallbackStep("revealDiff") =>
          (diff.diffEditorView => diff.shouldAutoScrollDiff)]_vars

\* C37 (SpecMetrics): cached metrics stay fresh. When the content-size
\* listener of a live editor has run, the cached computed height is
\* min(lineCount * lineHeight + padding, maxHeight) for the line count the
\* buffer has.
C37_ComputedHeightFresh ==
  [][\A m \in Mgrs :
       (ops' = ops + 1 /\ hist'.call.op = "contentSize" /\ hist'.call.mgr = m)
         => ed'[m].cachedComputedHeight =
              Min(getLineCount(ed'[m].value) * LineHeight + padding, MaxHeightValue)]_vars

\* C34: once nothing is scheduled any more (no frame callback queued, no
\* frame running, no timer armed), no growth of the modified buffer made by
\* an updateDiff or updateModified call of a Following dual manager with a
\* scrollbar is left without an executed reveal of its new last line
C34_ModifiedGrowthRevealed ==
  ~(/\ Quiescent
    /\ hist.call.op \in {"updateDiff", "updateModified"}
    /\ IsSome(hist.grown))

\* C40 (SpecFollow): the single manager follows growth. When an 'update' or
\* 'append' flush has changed the line count of a Following manager with
\* autoScrollOnUpdate and a vertical scrollbar, then, frames and timers
\* firing fairly, a reveal of the buffer's new last line is executed, unless
\* another call is made first.
C40_FollowsGrowth ==
  IsSome(hist.grown) ~> (hist.grown = None)

\* a flush changed the line count and the reveal of the new last line was
\* carried out with no call in between
C40_Witness ==
  /\ hist.followed
  /\ hist.grown = None
  /\ hist.call.op \in {"updateCode", "appendCode"}
  /\ ed[hist.call.mgr].revealLine = getLineCount(ed[hist.call.mgr].value)

====
